---- MODULE Spec2Model ----
(***************************************************************************)
(* A model of the git history analyzer: GitAnalyzer (analyzer.py), the     *)
(* command line driver analyze_repository/main (main.py) and               *)
(* EvolutionAnalyzer (evolution_analyzer.py).                              *)
(*                                                                         *)
(* Text (messages, paths, formatted dates, diff patches) is a sequence of  *)
(* one-character strings, so that lower(), substring search, endswith(),   *)
(* strftime() and the lexicographic order of sorted() are computed.        *)
(* A Python dict / Counter is a sequence of entries in insertion order.    *)
(* A float rounded to d decimals is the integer number of 10^-d units.     *)
(***************************************************************************)
EXTENDS Integers, Sequences, FiniteSets, TLC

VARIABLES
    env,      \* the outside world: the path, the repository behind it, the optional libraries
    pc,       \* position of the running program
    commits,  \* self.commits of the constructed analyzer (newest first)
    ret,      \* the last call of an operation: its arguments, its sampled commits, its result
    locals    \* locals of the running driver: results so far, files written, exit status

vars == <<env, pc, commits, ret, locals>>

(***************************************************************************)
(* Bounds of the model.                                                    *)
(***************************************************************************)
MaxCommits == 3        \* longest history of the general families
MaxManyAuthors == 11   \* most distinct authors in the many-author family
MaxTotal == 12         \* longest history of the sampling family
MaxSample == 5         \* largest sample size tried on the sampling family
MaxMixed == 2          \* longest history of the mixed family

(***************************************************************************)
(* Generic helpers.                                                        *)
(***************************************************************************)
Min(a, b) == IF a < b THEN a ELSE b

Max(a, b) == IF a > b THEN a ELSE b

Range(s) == {s[i] : i \in 1..Len(s)}

\* sum(s[lo..hi]), halving the range
RECURSIVE SumRange(_, _, _)
SumRange(s, lo, hi) ==
    IF lo > hi THEN 0
    ELSE IF lo = hi THEN s[lo]
    ELSE LET mid == (lo + hi) \div 2
         IN  SumRange(s, lo, mid) + SumRange(s, mid + 1, hi)

SumSeq(s) == SumRange(s, 1, Len(s))

\* the concatenation of ss[lo..hi], halving the range
RECURSIVE ConcatRange(_, _, _)
ConcatRange(ss, lo, hi) ==
    IF lo > hi THEN <<>>
    ELSE IF lo = hi THEN ss[lo]
    ELSE LET mid == (lo + hi) \div 2
         IN  ConcatRange(ss, lo, mid) \o ConcatRange(ss, mid + 1, hi)

\* [x for s in ss for x in s]
Flatten(ss) == ConcatRange(ss, 1, Len(ss))

\* s[:n] for n >= 0
Take(s, n) == SubSeq(s, 1, Min(n, Len(s)))

\* s[::step] for step >= 1: the elements at (0-based) indices 0, step, 2*step, ...
Stride(s, step) ==
    [j \in 1..((Len(s) + step - 1) \div step) |-> s[(j - 1) * step + 1]]

\* round(num / den, d) as an integer count of 10^-d units, scale = 10^d.
\* Python rounds the binary float half to even; on the exact quotient that is:
RoundDiv(num, den, scale) ==
    LET n == num * scale
        q == n \div den
        r == n % den
    IN  IF 2 * r < den THEN q
        ELSE IF 2 * r > den THEN q + 1
        ELSE IF q % 2 = 0 THEN q ELSE q + 1

(***************************************************************************)
(* Text.                                                                   *)
(***************************************************************************)
\* code points of the characters that formatted keys are made of
Ord(c) ==
    CASE c = " " -> 32 [] c = "-" -> 45 [] c = ":" -> 58 [] c = "W" -> 87
      [] c = "0" -> 48 [] c = "1" -> 49 [] c = "2" -> 50 [] c = "3" -> 51
      [] c = "4" -> 52 [] c = "5" -> 53 [] c = "6" -> 54 [] c = "7" -> 55
      [] c = "8" -> 56 [] c = "9" -> 57

\* str.__lt__: lexicographic by code point, a proper prefix is smaller
RECURSIVE StrLess(_, _)
StrLess(a, b) ==
    IF b = <<>> THEN FALSE
    ELSE IF a = <<>> THEN TRUE
    ELSE IF Head(a) # Head(b) THEN Ord(Head(a)) < Ord(Head(b))
    ELSE StrLess(Tail(a), Tail(b))

DigitChar(n) == <<"0", "1", "2", "3", "4", "5", "6", "7", "8", "9">>[n + 1]

\* "%02d"
Digits2(n) == <<DigitChar((n \div 10) % 10), DigitChar(n % 10)>>

\* "%04d"
Digits4(n) == Digits2(n \div 100) \o Digits2(n % 100)

LowerChar(c) ==
    CASE c = "A" -> "a" [] c = "B" -> "b" [] c = "F" -> "f" [] c = "G" -> "g"
      [] c = "I" -> "i" [] c = "U" -> "u" [] c = "X" -> "x"
      [] OTHER -> c

\* the message is searched as it is
LowerMutant(s) == s

\* str.lower()
Lower(s) == [i \in 1..Len(s) |-> LowerChar(s[i])]

\* kw in s
Contains(s, kw) ==
    \E i \in 0..(Len(s) - Len(kw)) : SubSeq(s, i + 1, i + Len(kw)) = kw

\* s.endswith(ext)
EndsWith(s, ext) ==
    /\ Len(ext) <= Len(s)
    /\ SubSeq(s, Len(s) - Len(ext) + 1, Len(s)) = ext

\* s.count(sub) for a two-character sub whose characters differ
CountPair(s, sub) ==
    Cardinality({i \in 1..(Len(s) - 1) : s[i] = sub[1] /\ s[i + 1] = sub[2]})

IsSpace(c) == c \in {" ", "\n", "\t"}

\* str.strip()
RECURSIVE LStrip(_)
LStrip(s) == IF s # <<>> /\ IsSpace(Head(s)) THEN LStrip(Tail(s)) ELSE s

RECURSIVE RStrip(_)
RStrip(s) ==
    IF s # <<>> /\ IsSpace(s[Len(s)]) THEN RStrip(SubSeq(s, 1, Len(s) - 1)) ELSE s

Strip(s) == RStrip(LStrip(s))

\* s.split('\n')[0]
RECURSIVE FirstLine(_)
FirstLine(s) ==
    IF s = <<>> \/ Head(s) = "\n" THEN <<>> ELSE <<Head(s)>> \o FirstLine(Tail(s))

MessageLimit == 100

\* commit.message.strip().split('\n')[0][:100]
Summary(message) == Take(FirstLine(Strip(message)), MessageLimit)

(***************************************************************************)
(* Time: a timezone-aware datetime is its wall clock fields and its UTC    *)
(* offset in hours.                                                        *)
(***************************************************************************)
IsLeap(y) == (y % 4 = 0) /\ ((y % 100 # 0) \/ (y % 400 = 0))

DaysInMonth(y, m) ==
    IF m = 2 THEN (IF IsLeap(y) THEN 29 ELSE 28)
    ELSE IF m \in {4, 6, 9, 11} THEN 30 ELSE 31

RECURSIVE DaysBeforeMonth(_, _)
DaysBeforeMonth(y, m) ==
    IF m = 1 THEN 0 ELSE DaysBeforeMonth(y, m - 1) + DaysInMonth(y, m - 1)

DaysBeforeYear(y) ==
    LET p == y - 1 IN p * 365 + (p \div 4) - (p \div 100) + (p \div 400)

\* date.toordinal()
Ordinal(t) == DaysBeforeYear(t.y) + DaysBeforeMonth(t.y, t.m) + t.d

\* minutes since the epoch of the proleptic calendar, in UTC
Instant(t) == ((Ordinal(t) * 24 + t.H) * 60 + t.M) - t.off * 60

\* (a - b).days for aware datetimes: floor of the difference in days
DeltaDays(a, b) == (Instant(a) - Instant(b)) \div 1440

\* (a.date() - b.date()).days
DateDeltaDays(a, b) == Ordinal(a) - Ordinal(b)

\* datetime.weekday(): Monday is 0
Weekday(t) == (Ordinal(t) + 6) % 7

\* %U: week of the year, Sunday as the first day of the week
WeekOfYear(t) ==
    LET yday == DaysBeforeMonth(t.y, t.m) + t.d - 1
        wday == Ordinal(t) % 7
    IN  (yday + 7 - wday) \div 7

FmtYear(t) == Digits4(t.y)

FmtMonth(t) == Digits4(t.y) \o <<"-">> \o Digits2(t.m)

FmtDay(t) == FmtMonth(t) \o <<"-">> \o Digits2(t.d)

FmtMinute(t) == FmtDay(t) \o <<" ">> \o Digits2(t.H) \o <<":">> \o Digits2(t.M)

FmtWeek(t) == Digits4(t.y) \o <<"-", "W">> \o Digits2(WeekOfYear(t))

(***************************************************************************)
(* Python containers.                                                      *)
(***************************************************************************)
\* sorted(s, key): less[i, j] says that the key of s[i] is strictly below the
\* key of s[j]; stable, as Python's sort is
StableSort(s, less) ==
    LET before(i) == {j \in 1..Len(s) :
                         \/ less[j, i]
                         \/ (~less[i, j] /\ j < i)}
    IN  [p \in 1..Len(s) |->
            s[CHOOSE i \in 1..Len(s) : Cardinality(before(i)) + 1 = p]]

\* the order Less gives the elements of s, by position
OrderOf(s, Less(_, _)) == [i, j \in 1..Len(s) |-> Less(s[i], s[j])]

\* the positions at which a key occurs for the first time, ascending
FirstOccurrences(keys) ==
    SelectSeq([i \in 1..Len(keys) |-> i],
              LAMBDA i : \A j \in 1..(i - 1) : keys[j] # keys[i])

\* the Counter after "for k in keys: counter[k] += 1": one entry per key, in
\* the order in which the keys were first added (dicts keep insertion order)
CountKeys(keys) ==
    LET first == FirstOccurrences(keys)
    IN  [p \in 1..Len(first) |->
            [key |-> keys[first[p]],
             n |-> Cardinality({i \in 1..Len(keys) : keys[i] = keys[first[p]]})]]

\* the smallest counts first
MoreCommonMutant(a, b) == a.n < b.n

\* the order of Counter.most_common: larger counts first
MoreCommon(a, b) == a.n > b.n

\* the first n entries as they were inserted
MostCommonMutant(cnt, n) == Take(cnt, n)

\* Counter.most_common(n): by count, descending; equal counts keep insertion order
MostCommon(cnt, n) == Take(StableSort(cnt, OrderOf(cnt, MoreCommon)), n)

KeyLess(a, b) == StrLess(a.key, b.key)

\* the dict returned as it was filled
SortedItemsMutant(cnt) == cnt

\* dict(sorted(d.items())) for a dict with text keys
SortedItems(cnt) == StableSort(cnt, OrderOf(cnt, KeyLess))

(***************************************************************************)
(* GitAnalyzer (analyzer.py).  A commit is a record                        *)
(*   hexsha, author (author.name), time (authored_datetime), message,      *)
(*   parents (how many), diff (what parents[0].diff(commit) gives: ok, or  *)
(*   an exception, and the diff items), tree (the blobs of commit.tree).   *)
(* A path that is None or empty is <<>>: both are false in a test.         *)
(***************************************************************************)
DefaultTopN == 10

DefaultRecentLimit == 10

DefaultFileLimit == 1000

TopFiles == 20

\* the text shown for a missing date (wu: none)
Placeholder == <<"wu">>

\* str(datetime) of an aware datetime, to the minute
StrTime(t) == FmtMinute(t)

\* every commit adds an author, known or not
AuthorsMutant(cs) == {<<i, cs[i].author>> : i \in 1..Len(cs)}

Authors(cs) == {cs[i].author : i \in 1..Len(cs)}

\* days_active if days_active > 0 else 0
ActiveDaysMutant(days_active) == days_active

ActiveDays(days_active) == IF days_active > 0 THEN days_active ELSE 0

get_basic_stats(cs) ==
    LET total_commits == Len(cs)
        last_commit == cs[1].time
        first_commit == cs[Len(cs)].time
        days_active == IF cs # <<>> THEN DeltaDays(last_commit, first_commit) ELSE 0
    IN  [total_commits |-> total_commits,
         authors |-> Cardinality(Authors(cs)),
         first_commit |-> IF cs # <<>> THEN StrTime(first_commit) ELSE Placeholder,
         last_commit |-> IF cs # <<>> THEN StrTime(last_commit) ELSE Placeholder,
         days_active |-> ActiveDays(days_active)]

AuthorCounts(cs) == CountKeys([i \in 1..Len(cs) |-> cs[i].author])

\* the percentage cut to two decimals instead of rounded
PercentageMutant(count, total_commits) ==
    IF total_commits > 0 THEN (count * 100 * 100) \div total_commits ELSE 0

\* round(count / total_commits * 100, 2), in hundredths of a percent
Percentage(count, total_commits) ==
    IF total_commits > 0 THEN RoundDiv(count * 100, total_commits, 100) ELSE 0

get_author_ranking(cs, top_n) ==
    IF cs = <<>> THEN <<>>
    ELSE LET top == MostCommon(AuthorCounts(cs), top_n)
         IN  [i \in 1..Len(top) |->
                 [author |-> top[i].key,
                  count |-> top[i].n,
                  percentage |-> Percentage(top[i].n, Len(cs))]]

\* the bucket key of a commit date; an unknown granularity falls back to the month
FrequencyKey(t, by) ==
    IF by = "day" THEN FmtDay(t)
    ELSE IF by = "month" THEN FmtMonth(t)
    ELSE IF by = "year" THEN FmtYear(t)
    ELSE FmtMonth(t)

get_commit_frequency(cs, by) ==
    IF cs = <<>> THEN <<>>
    ELSE SortedItems(CountKeys([i \in 1..Len(cs) |-> FrequencyKey(cs[i].time, by)]))

get_recent_commits(cs, limit) ==
    LET first == Take(cs, limit)
    IN  [i \in 1..Len(first) |->
            [index |-> i,
             hash |-> Take(first[i].hexsha, 8),
             author |-> first[i].author,
             time |-> FmtMinute(first[i].time),
             message |-> Summary(first[i].message)]]

\* the path one diff item adds to the counter: a_path if there is one, else
\* b_path if there is one, else nothing
ItemTouched(item) ==
    IF item.a_path # <<>> THEN <<item.a_path>>
    ELSE IF item.b_path # <<>> THEN <<item.b_path>>
    ELSE <<>>

\* the paths one commit adds to the counter, in order: a root commit is not
\* diffed, a diff that raises adds nothing
CommitTouched(commit) ==
    IF commit.parents > 0 /\ commit.diff.ok
    THEN Flatten([i \in 1..Len(commit.diff.items) |-> ItemTouched(commit.diff.items[i])])
    ELSE <<>>

\* the loop runs over all the commits instead of self.commits[:analyzed_commits]
FileChangesMutant(cs, n) == CountKeys(Flatten([i \in 1..Len(cs) |-> CommitTouched(cs[i])]))

\* file_changes after the loop over the first n commits
FileChanges(cs, n) == CountKeys(Flatten([i \in 1..n |-> CommitTouched(cs[i])]))

\* only the commits that were diffed are counted
AnalyzedCommitsMutant(cs, limit) ==
    Len(SelectSeq(Take(cs, limit), LAMBDA commit : commit.parents > 0 /\ commit.diff.ok))

\* min(limit, len(self.commits))
AnalyzedCommits(cs, limit) == Min(limit, Len(cs))

get_file_changes_stats(cs, limit) ==
    IF cs = <<>> THEN [total_files |-> 0, changed_files |-> <<>>]
    ELSE LET analyzed_commits == AnalyzedCommits(cs, limit)
             file_changes == FileChanges(cs, analyzed_commits)
             top_files == MostCommon(file_changes, TopFiles)
         IN  [analyzed_commits |-> analyzed_commits,
              touched_files |-> Len(file_changes),
              top_files |-> [i \in 1..Len(top_files) |->
                                [file |-> top_files[i].key,
                                 changes |-> top_files[i].n]]]

(***************************************************************************)
(* EvolutionAnalyzer (evolution_analyzer.py).                              *)
(***************************************************************************)
\* the keywords, searched as substrings; the characters of the two Chinese
\* keywords (xiufu: repair, cuowu: mistake) are written in pinyin, one atom each
bug_keywords ==
    {<<"f", "i", "x">>, <<"b", "u", "g">>, <<"e", "r", "r", "o", "r">>,
     <<"i", "s", "s", "u", "e">>, <<"p", "a", "t", "c", "h">>,
     <<"c", "o", "r", "r", "e", "c", "t">>, <<"xiu", "fu">>, <<"cuo", "wu">>,
     <<"h", "o", "t", "f", "i", "x">>, <<"b", "u", "g", "f", "i", "x">>}

TopBugFixers == 10

TopBuggyFiles == 10

RecentBugFixes == 20

HighChurnFiles == 20

TopContributors == 20

DefaultChurnSample == 100

DefaultComplexitySample == 50

ReportComplexitySample == 30

\* any(keyword in message for keyword in bug_keywords), message lower-cased
IsBugFix(c) == \E keyword \in bug_keywords : Contains(Lower(c.message), keyword)

\* the paths one classified commit adds to bug_files: only pre-image paths
\* are counted; a diff that raises is passed over
BugFixTouched(commit) ==
    IF commit.parents > 0 /\ commit.diff.ok
    THEN LET items == SelectSeq(commit.diff.items, LAMBDA item : item.a_path # <<>>)
         IN  [i \in 1..Len(items) |-> items[i].a_path]
    ELSE <<>>

\* bug_files after the loop over the classified commits
BugFiles(fixes) == CountKeys(Flatten([i \in 1..Len(fixes) |-> BugFixTouched(fixes[i])]))

\* round(len(bug_fixes) / total_commits * 100, 2), in hundredths of a percent
BugFixRate(fixes, total_commits) ==
    IF total_commits > 0 THEN RoundDiv(fixes * 100, total_commits, 100) ELSE 0

\* a classified commit whose diff raises is passed over altogether
ClassifiedCommitsMutant(cs) ==
    SelectSeq(cs, LAMBDA c : IsBugFix(c) /\ (c.parents > 0 => c.diff.ok))

\* the commits the loop classifies as fixes, in input order: the try block
\* encloses the diff only
ClassifiedCommits(cs) == SelectSeq(cs, IsBugFix)

analyze_bug_fix_patterns(cs) ==
    LET fixes == ClassifiedCommits(cs)
        bug_fixes == [i \in 1..Len(fixes) |->
                         [hash |-> Take(fixes[i].hexsha, 8),
                          author |-> fixes[i].author,
                          date |-> FmtMinute(fixes[i].time),
                          message |-> Summary(fixes[i].message)]]
        bug_fix_by_month == CountKeys([i \in 1..Len(fixes) |-> FmtMonth(fixes[i].time)])
        bug_authors == CountKeys([i \in 1..Len(fixes) |-> fixes[i].author])
        bug_files == BugFiles(fixes)
    IN  [total_bug_fixes |-> Len(bug_fixes),
         bug_fix_rate |-> BugFixRate(Len(bug_fixes), Len(cs)),
         bug_fixes_by_month |-> SortedItems(bug_fix_by_month),
         top_bug_fixers |-> MostCommon(bug_authors, TopBugFixers),
         most_buggy_files |-> MostCommon(bug_files, TopBuggyFiles),
         recent_bug_fixes |-> Take(bug_fixes, RecentBugFixes)]

\* the sampling step shared by the churn and the complexity analysis
\* (sample_commits >= 1; with 0 the division raises, a negative one reverses the slice)
SampleStepMutant(total_commits, sample_commits) ==
    (total_commits + sample_commits - 1) \div sample_commits

SampleStep(total_commits, sample_commits) == total_commits \div sample_commits

\* the slice is cut to the sample size
SampledCommitsMutant(cs, sample_commits) ==
    IF Len(cs) > sample_commits
    THEN Take(Stride(cs, SampleStep(Len(cs), sample_commits)), sample_commits)
    ELSE cs

SampledCommits(cs, sample_commits) ==
    IF Len(cs) > sample_commits
    THEN Stride(cs, SampleStep(Len(cs), sample_commits))
    ELSE cs

\* additions and deletions of one patch: the marker count minus one
PatchAdditions(diff_text) == CountPair(diff_text, <<"\n", "+">>) - 1

PatchDeletions(diff_text) == CountPair(diff_text, <<"\n", "-">>) - 1

\* an item whose patch cannot be read is counted like the others
ItemCountedMutant(item) == item.patch # <<>>

\* a diff item is counted if reading it does not raise and its patch is not empty
ItemCounted(item) == ~item.bad /\ item.patch # <<>>

\* the diff items of a commit that are counted, in order
CountedItems(commit) == SelectSeq(commit.diff.items, ItemCounted)

\* a sampled commit is analyzed if it has a parent and its diff does not raise
ChurnAnalyzed(commit) == commit.parents > 0 /\ commit.diff.ok

\* the timeline point of an analyzed commit: the sums over its counted items
ChurnPoint(commit) ==
    LET items == CountedItems(commit)
        total_additions == SumSeq([i \in 1..Len(items) |-> PatchAdditions(items[i].patch)])
        total_deletions == SumSeq([i \in 1..Len(items) |-> PatchDeletions(items[i].patch)])
    IN  [date |-> FmtDay(commit.time),
         timestamp |-> commit.time,
         additions |-> total_additions,
         deletions |-> total_deletions,
         net_change |-> total_additions - total_deletions,
         files_changed |-> Len(items),
         churn_rate |-> total_additions + total_deletions]

\* churn_data after the loop: a point for every analyzed commit with files_changed > 0
ChurnData(sampled) ==
    LET kept == SelectSeq(sampled,
                          LAMBDA commit : ChurnAnalyzed(commit)
                                          /\ CountedItems(commit) # <<>>)
    IN  [i \in 1..Len(kept) |-> ChurnPoint(kept[i])]

\* what one commit adds to file_churn: its counted items that have a path
FileChurnItems(commit) ==
    IF ChurnAnalyzed(commit)
    THEN LET items == SelectSeq(CountedItems(commit),
                                LAMBDA item : item.a_path # <<>> \/ item.b_path # <<>>)
         IN  [i \in 1..Len(items) |->
                 [path |-> IF items[i].a_path # <<>> THEN items[i].a_path
                           ELSE items[i].b_path,
                  additions |-> PatchAdditions(items[i].patch),
                  deletions |-> PatchDeletions(items[i].patch)]]
    ELSE <<>>

\* file_churn after the loop: one entry per path in the order the paths were
\* first counted, with the sums over the items of that path
FileChurn(sampled) ==
    LET all == Flatten([i \in 1..Len(sampled) |-> FileChurnItems(sampled[i])])
        first == FirstOccurrences([i \in 1..Len(all) |-> all[i].path])
        of(path) == SelectSeq(all, LAMBDA x : x.path = path)
    IN  [p \in 1..Len(first) |->
            LET own == of(all[first[p]].path)
            IN  [key |-> all[first[p]].path,
                 additions |-> SumSeq([i \in 1..Len(own) |-> own[i].additions]),
                 deletions |-> SumSeq([i \in 1..Len(own) |-> own[i].deletions]),
                 changes |-> Len(own)]]

\* the files are sorted without reverse=True
MoreChurnMutant(a, b) == a.total_churn < b.total_churn

\* sorted(..., key=total_churn, reverse=True): larger churn first, ties in order
MoreChurn(a, b) == a.total_churn > b.total_churn

analyze_code_churn(cs, sample_commits) ==
    LET sampled_commits == SampledCommits(cs, sample_commits)
        st == [churn_data |-> ChurnData(sampled_commits),
               file_churn |-> FileChurn(sampled_commits)]
        files == [i \in 1..Len(st.file_churn) |->
                     [file |-> st.file_churn[i].key,
                      total_churn |-> st.file_churn[i].additions + st.file_churn[i].deletions,
                      additions |-> st.file_churn[i].additions,
                      deletions |-> st.file_churn[i].deletions,
                      change_count |-> st.file_churn[i].changes]]
    IN  [churn_timeline |-> st.churn_data,
         high_churn_files |->
             Take(StableSort(files, OrderOf(files, MoreChurn)), HighChurnFiles),
         total_additions |->
             SumSeq([i \in 1..Len(st.churn_data) |-> st.churn_data[i].additions]),
         total_deletions |->
             SumSeq([i \in 1..Len(st.churn_data) |-> st.churn_data[i].deletions])]

\* the keys of a grouping, in ascending text order: sorted(d.keys())
SortedKeys(S) ==
    [p \in 1..Cardinality(S) |->
        CHOOSE k \in S : Cardinality({j \in S : StrLess(j, k)}) + 1 = p]

analyze_development_velocity(cs) ==
    LET idx == 1..Len(cs)
        weeks == SortedKeys({FmtWeek(cs[i].time) : i \in idx})
        months == SortedKeys({FmtMonth(cs[i].time) : i \in idx})
        inWeek(w) == {i \in idx : FmtWeek(cs[i].time) = w}
        inMonth(m) == {i \in idx : FmtMonth(cs[i].time) = m}
        authorsOf(I) == {cs[i].author : i \in I}
        daysOf(I) == {FmtDay(cs[i].time) : i \in I}
    IN  [weekly_velocity |->
             [p \in 1..Len(weeks) |->
                 [week |-> weeks[p],
                  commits |-> Cardinality(inWeek(weeks[p])),
                  active_authors |-> Cardinality(authorsOf(inWeek(weeks[p]))),
                  avg_commits_per_author |->
                      RoundDiv(Cardinality(inWeek(weeks[p])),
                               Cardinality(authorsOf(inWeek(weeks[p]))), 100)]],
         monthly_velocity |->
             [p \in 1..Len(months) |->
                 [month |-> months[p],
                  commits |-> Cardinality(inMonth(months[p])),
                  active_authors |-> Cardinality(authorsOf(inMonth(months[p]))),
                  active_days |-> Cardinality(daysOf(inMonth(months[p]))),
                  commits_per_day |->
                      RoundDiv(Cardinality(inMonth(months[p])),
                               Cardinality(daysOf(inMonth(months[p]))), 100)]]]

Earlier(a, b) == Instant(a) < Instant(b)

\* the keys of contributor_dates: the authors in the order of their first
\* commit in the traversal
AuthorOrder(cs) ==
    LET tally == AuthorCounts(cs) IN [i \in 1..Len(tally) |-> tally[i].key]

\* contributor_dates[author]: the author's commit dates in traversal order
ContributorDates(cs, author) ==
    LET own == SelectSeq(cs, LAMBDA c : c.author = author)
    IN  [i \in 1..Len(own) |-> own[i].time]

ContributorStat(cs, author) ==
    LET dates == ContributorDates(cs, author)
        sorted_dates == StableSort(dates, OrderOf(dates, Earlier))
        first == sorted_dates[1]
        last == sorted_dates[Len(sorted_dates)]
        duration_days == DateDeltaDays(last, first) + 1
    IN  [author |-> author,
         total_commits |-> Len(dates),
         first_commit |-> FmtDay(first),
         last_commit |-> FmtDay(last),
         active_days |-> duration_days,
         commits_per_day |-> RoundDiv(Len(dates), Max(duration_days, 1), 1000)]

MoreCommits(a, b) == a.total_commits > b.total_commits

\* monthly_contributors[month]
MonthContributors(cs, month) ==
    {cs[i].author : i \in {j \in 1..Len(cs) : FmtMonth(cs[j].time) = month}}

\* all_contributors before the n-th sorted month is visited
ContributorsBefore(cs, sorted_months, n) ==
    UNION {MonthContributors(cs, sorted_months[q]) : q \in 1..(n - 1)}

\* the entry the loop over the sorted months appends for the n-th month
EvolutionPoint(cs, sorted_months, n) ==
    LET all_contributors == ContributorsBefore(cs, sorted_months, n)
        current_contributors == MonthContributors(cs, sorted_months[n])
        new_contributors == current_contributors \ all_contributors
    IN  [month |-> sorted_months[n],
         total_contributors |-> Cardinality(current_contributors),
         new_contributors |-> Cardinality(new_contributors),
         cumulative_contributors |->
             Cardinality(all_contributors \cup current_contributors)]

\* the months in the order of the traversal, newest first
SortedMonthsMutant(cs) ==
    LET months == [i \in 1..Len(cs) |-> FmtMonth(cs[i].time)]
        first == FirstOccurrences(months)
    IN  [p \in 1..Len(first) |-> months[first[p]]]

SortedMonths(cs) == SortedKeys({FmtMonth(cs[i].time) : i \in 1..Len(cs)})

analyze_contributor_evolution(cs) ==
    LET order == AuthorOrder(cs)
        contributor_stats == [i \in 1..Len(order) |-> ContributorStat(cs, order[i])]
        sorted_months == SortedMonths(cs)
        evolution == [n \in 1..Len(sorted_months) |-> EvolutionPoint(cs, sorted_months, n)]
        all_contributors == ContributorsBefore(cs, sorted_months, Len(sorted_months) + 1)
    IN  [contributor_evolution |-> evolution,
         contributor_stats |-> Take(StableSort(contributor_stats,
                                               OrderOf(contributor_stats, MoreCommits)),
                                    TopContributors),
         total_contributors |-> Cardinality(all_contributors)]

\* a file whose read or analysis raises is counted like the others
FileAnalyzedMutant(item, file_extensions) ==
    /\ item.type = "blob"
    /\ \E ext \in file_extensions : EndsWith(item.path, ext)

\* a tree entry is analyzed if it is a blob with an allowed extension whose
\* read and analysis do not raise
FileAnalyzed(item, file_extensions) ==
    /\ item.type = "blob"
    /\ \E ext \in file_extensions : EndsWith(item.path, ext)
    /\ item.ok

\* _analyze_commit_complexity: <<the metrics>> of a commit, or <<>> for None
\* (also when walking the tree raises: the outer except returns None)
AnalyzeCommitComplexity(commit, file_extensions) ==
    LET files == SelectSeq(commit.tree.items,
                           LAMBDA item : FileAnalyzed(item, file_extensions))
        total_complexity == SumSeq([i \in 1..Len(files) |-> SumSeq(files[i].cc)])
        total_functions == SumSeq([i \in 1..Len(files) |-> Len(files[i].cc)])
        total_loc == SumSeq([i \in 1..Len(files) |-> files[i].nloc])
        file_count == Len(files)
    IN  IF commit.tree.ok /\ file_count > 0
        THEN <<[avg_complexity |-> RoundDiv(total_complexity, Max(total_functions, 1), 100),
                total_loc |-> total_loc,
                file_count |-> file_count,
                function_count |-> total_functions,
                complexity_per_loc |->
                    RoundDiv(total_complexity * 100, Max(total_loc, 1), 100)]>>
        ELSE <<>>

\* complexity_timeline after the loop: a point for every sampled commit that has metrics
ComplexityTimeline(sampled, file_extensions) ==
    LET kept == SelectSeq(sampled,
                          LAMBDA commit :
                              AnalyzeCommitComplexity(commit, file_extensions) # <<>>)
    IN  [i \in 1..Len(kept) |->
            [commit_hash |-> Take(kept[i].hexsha, 8),
             date |-> FmtDay(kept[i].time),
             timestamp |-> kept[i].time,
             metrics |-> AnalyzeCommitComplexity(kept[i], file_extensions)[1]]]

Unavailable == [error |-> "unavailable"]

analyze_code_complexity_evolution(cs, file_extensions, sample_commits, has_code_analysis) ==
    IF ~has_code_analysis THEN Unavailable
    ELSE ComplexityTimeline(SampledCommits(cs, sample_commits), file_extensions)

ReportChurnSample == 100

\* the try block of the report swallows the exception: the entry is the analysis
ReportComplexityEntryMutant(cs, has_code_analysis, raises) ==
    <<analyze_code_complexity_evolution(cs, {<<".", "p", "y">>}, ReportComplexitySample,
                                        has_code_analysis)>>

\* report['complexity_evolution']: the result of the complexity analysis, or
\* None (the empty option) when an exception escapes it
ReportComplexityEntry(cs, has_code_analysis, raises) ==
    IF raises THEN <<>>
    ELSE <<analyze_code_complexity_evolution(cs, {<<".", "p", "y">>},
                                             ReportComplexitySample, has_code_analysis)>>

\* now is the reading of the clock that goes into the analysis_date
generate_full_report(cs, has_code_analysis, raises, now) ==
    [metadata |-> [analysis_date |-> now, total_commits |-> Len(cs)],
     bug_fix_analysis |-> analyze_bug_fix_patterns(cs),
     code_churn |-> analyze_code_churn(cs, ReportChurnSample),
     development_velocity |-> analyze_development_velocity(cs),
     contributor_evolution |-> analyze_contributor_evolution(cs),
     complexity_evolution |-> ReportComplexityEntry(cs, has_code_analysis, raises)]

(***************************************************************************)
(* The repositories the model is run on.                                   *)
(***************************************************************************)
AuthorName(i) ==
    <<"A", "B", "C", "D", "E", "F", "G", "H", "I", "J", "K", "L", "M", "N", "O", "P">>[i]

\* commit dates: a year boundary an hour apart, two dates whose order by
\* instant is the reverse of their order by local date, a date after a leap day
TimeA == [y |-> 2023, m |-> 12, d |-> 31, H |-> 23, M |-> 0, off |-> 0]

TimeB == [y |-> 2024, m |-> 1, d |-> 1, H |-> 0, M |-> 0, off |-> 0]

TimeC == [y |-> 2024, m |-> 1, d |-> 2, H |-> 0, M |-> 30, off |-> 14]

TimeD == [y |-> 2024, m |-> 1, d |-> 1, H |-> 23, M |-> 0, off |-> -12]

TimeE == [y |-> 2024, m |-> 3, d |-> 1, H |-> 12, M |-> 0, off |-> 0]

TimePool == {TimeA, TimeB, TimeC, TimeD, TimeE}

MsgFix == <<"F", "i", "x", " ", "n", "u", "l", "l", " ", "p", "o", "i", "n", "t", "e", "r">>

MsgAdd == <<"A", "d", "d", " ", "l", "o", "g", "i", "n", " ", "p", "a", "g", "e">>

MsgBug == <<" ", "B", "U", "G", "\n", "b", "o", "d", "y">>

MsgPrefix == <<"p", "r", "e", "f", "i", "x">>

MsgXiufu == <<"xiu", "fu", " ", "x">>

MessagePool == {MsgFix, MsgAdd, MsgBug, MsgPrefix, MsgXiufu, <<>>}

PathA == <<"a", ".", "p", "y">>

PathB == <<"b", ".", "t", "x", "t">>

ExtPy == <<".", "p", "y">>

\* patches: one added and one removed line; added lines only; a patch led by
\* the file header lines; an empty one (a binary file, a pure rename)
PatchBoth == <<"@", "@", "\n", "+", "x", "\n", "-", "y">>

PatchAddOnly == <<"@", "@", "\n", "+", "x", "\n", "+", "y">>

PatchHeader == <<"-", "-", "-", "\n", "+", "+", "+", "\n", "@", "@", "\n", "+", "x",
                 "\n", "+", "y", "\n", "-", "z">>

DiffItem(a_path, b_path, patch, bad) ==
    [a_path |-> a_path, b_path |-> b_path, patch |-> patch, bad |-> bad]

ItemModify == DiffItem(PathA, PathA, PatchBoth, FALSE)

ItemRename == DiffItem(PathA, PathB, <<>>, FALSE)

ItemAdd == DiffItem(<<>>, PathB, PatchAddOnly, FALSE)

ItemHeader == DiffItem(PathB, PathB, PatchHeader, FALSE)

ItemBad == DiffItem(PathA, PathA, PatchBoth, TRUE)

DiffOk(items) == [ok |-> TRUE, items |-> items]

DiffFails == [ok |-> FALSE, items |-> <<>>]

Blob(path, ok, cc, nloc) ==
    [type |-> "blob", path |-> path, ok |-> ok, cc |-> cc, nloc |-> nloc]

TreeOk(items) == [ok |-> TRUE, items |-> items]

DefaultTree == TreeOk(<<Blob(PathA, TRUE, <<1, 3>>, 7), Blob(PathB, TRUE, <<>>, 2)>>)

Commit(author, time, message, parents, diff, tree) ==
    [hexsha |-> <<>>, author |-> author, time |-> time, message |-> message,
     parents |-> parents, diff |-> diff, tree |-> tree]

\* the object name of the i-th commit of a history
HexSha(i) == Digits4(i) \o Digits4(i) \o Digits2(i)

\* names the commits of a history: the oldest is 1
WithIds(h) == [i \in 1..Len(h) |-> [h[i] EXCEPT !.hexsha = HexSha(Len(h) - i + 1)]]

\* a linear history: the oldest commit is the root, every other one has one parent
Linear(h) == [i \in 1..Len(h) |-> [h[i] EXCEPT !.parents = IF i = Len(h) THEN 0 ELSE 1]]

MaxOf(s) == IF s = <<>> THEN 0 ELSE CHOOSE x \in Range(s) : \A y \in Range(s) : y <= x

\* author sequences up to renaming: a new author takes the next unused name
RECURSIVE AuthorSeqs(_)
AuthorSeqs(n) ==
    IF n = 0 THEN {<<>>}
    ELSE UNION {{Append(s, a) : a \in 1..(MaxOf(s) + 1)} : s \in AuthorSeqs(n - 1)}

\* histories of up to max commits in which authors and dates vary
HistoryFamily(max) ==
    UNION {{WithIds(Linear([i \in 1..n |->
                Commit(AuthorName(a[i]), t[i], MsgAdd, 1, DiffOk(<<ItemModify>>),
                       DefaultTree)]))
            : a \in AuthorSeqs(n), t \in [1..n -> TimePool]}
           : n \in 0..max}

\* histories with up to max authors: k authors with one commit each, then e
\* more commits of the first one
ManyAuthorsFamily(max) ==
    {WithIds(Linear([i \in 1..(k + e) |->
         Commit(AuthorName(IF i <= k THEN i ELSE 1), TimeA, MsgAdd, 1,
                DiffOk(<<ItemModify>>), DefaultTree)]))
     : k \in 1..max, e \in 0..1}

\* histories in which parents, diffs and messages vary (one author, one date)
DiffPool ==
    {DiffFails, DiffOk(<<>>), DiffOk(<<ItemModify>>), DiffOk(<<ItemRename>>),
     DiffOk(<<ItemAdd>>), DiffOk(<<ItemModify, ItemRename>>)}

\* a root commit has nothing to diff against: its diff field is never read
ParentDiffPool == {<<0, DiffFails>>} \cup {<<1, d>> : d \in DiffPool}

DiffFamily(max) ==
    UNION {{WithIds([i \in 1..n |->
                Commit("A", TimeA, MsgAdd, pd[i][1], pd[i][2], DefaultTree)])
            : pd \in [1..n -> ParentDiffPool]}
           : n \in 0..max}

\* histories in which the messages vary and the diff of the commit at
\* position fail (if any) raises; authors and dates go by position;
\* and histories with more fixes than the list of recent fixes holds
BugFamily(max) ==
    UNION {{WithIds([i \in 1..n |->
                Commit(AuthorName(((i - 1) % 2) + 1),
                       <<TimeE, TimeD, TimeB, TimeA>>[((i - 1) % 4) + 1],
                       m[i], 1,
                       IF i = fail THEN DiffFails ELSE DiffOk(<<ItemModify>>),
                       DefaultTree)])
            : m \in [1..n -> MessagePool], fail \in 0..n}
           : n \in 0..max}
    \cup {WithIds([i \in 1..(RecentBugFixes + extra) |->
                Commit(AuthorName(((i - 1) % 2) + 1),
                       <<TimeE, TimeD, TimeB, TimeA>>[((i - 1) % 4) + 1],
                       IF i = other THEN MsgAdd ELSE MsgFix, 1,
                       IF i % 3 = fail THEN DiffFails ELSE DiffOk(<<ItemModify>>),
                       DefaultTree)])
          : extra \in 1..2, other \in 1..2, fail \in 0..2}

PatchDelOnly == <<"@", "@", "\n", "-", "x">>

ItemDelete == DiffItem(PathB, <<>>, PatchDelOnly, FALSE)

\* the path of the k-th file of a commit that touches many files
NumberedPath(k) == <<"f">> \o Digits2(k) \o ExtPy

\* a diff that modifies n files, their patches of different sizes
WideDiff(n) ==
    DiffOk([k \in 1..n |->
               DiffItem(NumberedPath(k), NumberedPath(k),
                        <<PatchDelOnly, PatchBoth, PatchHeader>>[(k % 3) + 1], FALSE)])

\* diffs with items that cannot be read among items that can, with a patch
\* and without
ChurnDiffPool ==
    {DiffFails, DiffOk(<<ItemModify>>), DiffOk(<<ItemBad, ItemAdd>>),
     DiffOk(<<ItemHeader, ItemBad, ItemModify>>), DiffOk(<<ItemBad>>),
     DiffOk(<<ItemRename, ItemDelete>>)}

\* histories of up to max commits in which the diffs vary: the dates descend
\* along the traversal, the oldest commit may be a root commit; and histories
\* whose newest commit touches more files than the report lists
ChurnFamily(max) ==
    UNION {{WithIds([i \in 1..n |->
                Commit("A", <<TimeE, TimeD, TimeB, TimeA>>[((i - 1) % 4) + 1], MsgAdd,
                       IF i = n /\ root THEN 0 ELSE 1, d[i], DefaultTree)])
            : d \in [1..n -> ChurnDiffPool], root \in BOOLEAN}
           : n \in 0..max}
    \cup {WithIds(<<Commit("A", TimeE, MsgAdd, 1, WideDiff(HighChurnFiles + 1), DefaultTree),
                    Commit("A", TimeD, MsgAdd, 1, d, DefaultTree)>>)
          : d \in ChurnDiffPool}

\* histories for the rollups of the bug classifier: one commit by each of the
\* authors, extra more by the last of them, all of them fixes but the one at
\* position other (if any); if wide, the newest commit touches more files
\* than are listed
BugAuthorsFamily(max) ==
    {WithIds([i \in 1..(authors + extra) |->
         Commit(AuthorName(IF i <= authors THEN i ELSE authors),
                <<TimeE, TimeD, TimeB, TimeA>>[((i - 1) % 4) + 1],
                IF i = other THEN MsgAdd ELSE MsgFix, 1,
                IF i = 1 /\ wide THEN WideDiff(TopBuggyFiles + 1)
                ELSE IF i % 3 = 0 THEN DiffFails ELSE DiffOk(<<ItemModify>>),
                DefaultTree)])
     : authors \in 1..max, extra \in 0..2, other \in 0..max, wide \in BOOLEAN}

PathC == <<"c", ".", "p", "y">>

\* a directory of the tree: an entry that is not a blob
SubTree(path) == [type |-> "tree", path |-> path, ok |-> TRUE, cc |-> <<>>, nloc |-> 0]

\* a tree whose walk raises after it has yielded items
TreeFails(items) == [ok |-> FALSE, items |-> items]

\* trees with files that are analyzed, files whose analysis raises, files of
\* another extension, a directory, a file without functions, and walks that
\* raise at the start or after a file has been analyzed
TreePool ==
    {DefaultTree, TreeOk(<<>>),
     TreeOk(<<Blob(PathA, FALSE, <<>>, 0), Blob(PathC, TRUE, <<2>>, 3)>>),
     TreeOk(<<Blob(PathA, FALSE, <<>>, 0), Blob(PathB, TRUE, <<>>, 2)>>),
     TreeOk(<<SubTree(PathA), Blob(PathC, TRUE, <<>>, 0)>>),
     TreeFails(<<>>),
     TreeFails(<<Blob(PathA, TRUE, <<1, 3>>, 7)>>)}

\* histories of up to max commits in which the trees vary
TreeFamily(max) ==
    UNION {{WithIds([i \in 1..n |->
                Commit("A", <<TimeE, TimeD, TimeB, TimeA>>[((i - 1) % 4) + 1], MsgAdd,
                       1, DiffOk(<<ItemModify>>), t[i])])
            : t \in [1..n -> TreePool]}
           : n \in 0..max}

\* commits that differ in every field, for the runs of the whole program
MixedPool ==
    {Commit("A", TimeE, MsgFix, 1, DiffOk(<<ItemModify, ItemAdd>>), DefaultTree),
     Commit("B", TimeD, MsgAdd, 1, DiffFails, TreeOk(<<>>)),
     Commit("A", TimeC, MsgBug, 2, DiffOk(<<ItemRename, ItemBad>>), DefaultTree),
     Commit("C", TimeB, MsgPrefix, 1, DiffOk(<<ItemHeader>>),
            TreeOk(<<Blob(PathA, FALSE, <<>>, 0)>>)),
     Commit("B", TimeA, MsgAdd, 0, DiffFails, [ok |-> FALSE, items |-> <<>>])}

\* the mixed histories: no commit is dated later than the one before it in
\* the traversal
MixedFamily(max) ==
    UNION {{WithIds(h) : h \in {g \in [1..n -> MixedPool] :
                                   \A i \in 1..(n - 1) :
                                       Instant(g[i].time) >= Instant(g[i + 1].time)}}
           : n \in 0..max}

\* histories of which only the length matters: the sampling step
PlainHistory(n) ==
    WithIds(Linear([i \in 1..n |->
        Commit("A", TimeA, MsgAdd, 1, DiffOk(<<ItemModify>>), DefaultTree)]))

\* (1000 commits is the documented example of the sampling step)
SampleFamily(max) == {PlainHistory(n) : n \in (0..max) \cup {1000}}

(***************************************************************************)
(* State.                                                                  *)
(***************************************************************************)
NoCall == [op |-> "none", args |-> <<>>, raised |-> FALSE, sampled |-> <<>>, val |-> <<>>]

Returned(op, args, val) ==
    [op |-> op, args |-> args, raised |-> FALSE, sampled |-> <<>>, val |-> val]

\* a result that is not there yet is <<>>, one that is there is <<result>>
NoLocals ==
    [top_authors |-> DefaultTopN, calls |-> <<>>,
     basic_stats |-> <<>>, author_ranking |-> <<>>, commit_frequency |-> <<>>,
     recent_commits |-> <<>>, file_stats |-> <<>>,
     raised |-> <<>>, written |-> {}, success |-> <<>>, exit_code |-> <<>>]

\* an analyzer constructed on a repository with one of the histories H
InitReady(H, libs, faults) ==
    /\ env \in {[path_exists |-> TRUE, is_repo |-> TRUE, history |-> h,
                 has_code_analysis |-> b, complexity_raises |-> f]
                : h \in H, b \in libs, f \in faults}
    /\ commits = env.history
    /\ pc = "ready"
    /\ ret = NoCall
    /\ locals = NoLocals

(***************************************************************************)
(* The operations of a constructed analyzer, called with arguments from    *)
(* small sets.  None of them assigns to self.commits.                      *)
(***************************************************************************)
MainFileLimit == 500

TopNs == {1, 2, DefaultTopN}

Granularities == {"day", "month", "year", "week"}

RecentLimits == {1, DefaultRecentLimit}

FileLimits == {1, 2, MainFileLimit, DefaultFileLimit}

SampleSizes ==
    (0..MaxSample) \cup {ReportComplexitySample, DefaultComplexitySample, DefaultChurnSample}

CallBasicStats ==
    /\ pc = "ready"
    /\ ret' = Returned("get_basic_stats", <<>>, get_basic_stats(commits))
    /\ UNCHANGED <<env, pc, commits, locals>>

CallAuthorRanking ==
    \E top_n \in TopNs :
        /\ pc = "ready"
        /\ ret' = Returned("get_author_ranking", <<top_n>>, get_author_ranking(commits, top_n))
        /\ UNCHANGED <<env, pc, commits, locals>>

CallCommitFrequency ==
    \E by \in Granularities :
        /\ pc = "ready"
        /\ ret' = Returned("get_commit_frequency", <<by>>, get_commit_frequency(commits, by))
        /\ UNCHANGED <<env, pc, commits, locals>>

\* the list is cut in place, del self.commits[limit:], instead of sliced
CallRecentCommitsMutant ==
    \E limit \in RecentLimits :
        /\ pc = "ready"
        /\ ret' = Returned("get_recent_commits", <<limit>>, get_recent_commits(commits, limit))
        /\ commits' = Take(commits, limit)
        /\ UNCHANGED <<env, pc, locals>>

CallRecentCommits ==
    \E limit \in RecentLimits :
        /\ pc = "ready"
        /\ ret' = Returned("get_recent_commits", <<limit>>, get_recent_commits(commits, limit))
        /\ UNCHANGED <<env, pc, commits, locals>>

CallFileChangesStats ==
    \E limit \in FileLimits :
        /\ pc = "ready"
        /\ ret' = Returned("get_file_changes_stats", <<limit>>,
                          get_file_changes_stats(commits, limit))
        /\ UNCHANGED <<env, pc, commits, locals>>

CallBugFixPatterns ==
    /\ pc = "ready"
    /\ ret' = Returned("analyze_bug_fix_patterns", <<>>, analyze_bug_fix_patterns(commits))
    /\ UNCHANGED <<env, pc, commits, locals>>

CallDevelopmentVelocity ==
    /\ pc = "ready"
    /\ ret' = Returned("analyze_development_velocity", <<>>,
                      analyze_development_velocity(commits))
    /\ UNCHANGED <<env, pc, commits, locals>>

CallContributorEvolution ==
    /\ pc = "ready"
    /\ ret' = Returned("analyze_contributor_evolution", <<>>,
                      analyze_contributor_evolution(commits))
    /\ UNCHANGED <<env, pc, commits, locals>>

\* the division is done before the sizes are compared
SamplingRaisesMutant(cs, sample_commits) == sample_commits = 0

\* total_commits // sample_commits raises ZeroDivisionError
SamplingRaises(cs, sample_commits) == Len(cs) > sample_commits /\ sample_commits = 0

Raised(op, args) ==
    [op |-> op, args |-> args, raised |-> TRUE, sampled |-> <<>>, val |-> <<>>]

HexShas(cs) == [i \in 1..Len(cs) |-> cs[i].hexsha]

CallCodeChurn ==
    \E sample_commits \in SampleSizes :
        /\ pc = "ready"
        /\ ret' = IF SamplingRaises(commits, sample_commits)
                 THEN Raised("analyze_code_churn", <<sample_commits>>)
                 ELSE [op |-> "analyze_code_churn", args |-> <<sample_commits>>,
                       raised |-> FALSE,
                       sampled |-> HexShas(SampledCommits(commits, sample_commits)),
                       val |-> analyze_code_churn(commits, sample_commits)]
        /\ UNCHANGED <<env, pc, commits, locals>>

CallCodeComplexity ==
    \E sample_commits \in SampleSizes :
        /\ pc = "ready"
        /\ ret' = IF ~env.has_code_analysis
                 THEN Returned("analyze_code_complexity_evolution", <<sample_commits>>,
                               Unavailable)
                 ELSE IF SamplingRaises(commits, sample_commits)
                 THEN Raised("analyze_code_complexity_evolution", <<sample_commits>>)
                 ELSE [op |-> "analyze_code_complexity_evolution",
                       args |-> <<sample_commits>>,
                       raised |-> FALSE,
                       sampled |-> HexShas(SampledCommits(commits, sample_commits)),
                       val |-> analyze_code_complexity_evolution(
                                   commits, {ExtPy}, sample_commits, TRUE)]
        /\ UNCHANGED <<env, pc, commits, locals>>

\* the readings of the clock
Clock == {1, 2}

\* whether the complexity analysis raises is decided anew in every call
CallFullReportMutant ==
    \E now \in Clock, raises \in BOOLEAN :
        /\ pc = "ready"
        /\ ret' = Returned("generate_full_report", <<>>,
                          generate_full_report(commits, env.has_code_analysis, raises, now))
        /\ UNCHANGED <<env, pc, commits, locals>>

\* the complexity analysis inside the report raises only where it runs: with
\* the analysis library present
CallFullReport ==
    \E now \in Clock :
        /\ pc = "ready"
        /\ ret' = Returned("generate_full_report", <<>>,
                          generate_full_report(
                              commits, env.has_code_analysis,
                              env.has_code_analysis /\ env.complexity_raises, now))
        /\ UNCHANGED <<env, pc, commits, locals>>

(***************************************************************************)
(* The command line driver (main.py): analyze_repository, then main's      *)
(* sys.exit.  A step that raises is caught by the except clause of         *)
(* analyze_repository, which returns False.  The plotting and file writing *)
(* steps belong to other components: each either completes or raises.      *)
(***************************************************************************)
Step(next, change) ==
    /\ pc' = next
    /\ locals' = change
    /\ UNCHANGED <<env, ret>>

\* the except clause: the error is reported and analyze_repository returns False
Caught(step) == [locals EXCEPT !.raised = <<step>>, !.success = <<FALSE>>]

\* the path check at the top of analyze_repository
MainCheckPath ==
    /\ pc = "start"
    /\ IF ~env.path_exists
       THEN Step("return", [locals EXCEPT !.success = <<FALSE>>])
       ELSE Step("construct", locals)
    /\ UNCHANGED commits

\* GitAnalyzer(repo_path): raises FileNotFoundError for a missing path and
\* ValueError for a path that is no repository, else captures the commits
MainConstruct ==
    /\ pc = "construct"
    /\ IF ~env.path_exists \/ ~env.is_repo
       THEN Step("return", Caught("GitAnalyzer")) /\ UNCHANGED commits
       ELSE Step("get_basic_stats", locals) /\ commits' = env.history

Called(op) == Append(locals.calls, op)

MainBasicStats ==
    /\ pc = "get_basic_stats"
    /\ Step("get_author_ranking",
            [locals EXCEPT !.calls = Called("get_basic_stats"),
                           !.basic_stats = <<get_basic_stats(commits)>>])
    /\ UNCHANGED commits

MainAuthorRanking ==
    /\ pc = "get_author_ranking"
    /\ Step("get_commit_frequency",
            [locals EXCEPT !.calls = Called("get_author_ranking"),
                           !.author_ranking =
                               <<get_author_ranking(commits, locals.top_authors)>>])
    /\ UNCHANGED commits

MainCommitFrequency ==
    /\ pc = "get_commit_frequency"
    /\ Step("get_recent_commits",
            [locals EXCEPT !.calls = Called("get_commit_frequency"),
                           !.commit_frequency = <<get_commit_frequency(commits, "month")>>])
    /\ UNCHANGED commits

MainRecentCommits ==
    /\ pc = "get_recent_commits"
    /\ Step("get_file_changes_stats",
            [locals EXCEPT !.calls = Called("get_recent_commits"),
                           !.recent_commits =
                               <<get_recent_commits(commits, DefaultRecentLimit)>>])
    /\ UNCHANGED commits

MainFileStats ==
    /\ pc = "get_file_changes_stats"
    /\ Step("visualize",
            [locals EXCEPT !.calls = Called("get_file_changes_stats"),
                           !.file_stats =
                               <<get_file_changes_stats(commits, MainFileLimit)>>])
    /\ UNCHANGED commits

\* the charts of GitVisualizer
MainVisualize ==
    /\ pc = "visualize"
    /\ \E completes \in BOOLEAN :
           IF completes THEN Step("save_json", locals)
           ELSE Step("return", Caught("visualize"))
    /\ UNCHANGED commits

\* analysis_result.json
MainSaveJson ==
    /\ pc = "save_json"
    /\ \E completes \in BOOLEAN :
           IF completes
           THEN Step("save_report",
                     [locals EXCEPT !.written = @ \cup {"analysis_result.json"}])
           ELSE Step("return", Caught("save_json"))
    /\ UNCHANGED commits

\* report.txt, then return True
MainSaveReport ==
    /\ pc = "save_report"
    /\ \E completes \in BOOLEAN :
           IF completes
           THEN Step("return", [locals EXCEPT !.written = @ \cup {"report.txt"},
                                              !.success = <<TRUE>>])
           ELSE Step("return", Caught("save_report"))
    /\ UNCHANGED commits

\* sys.exit(0)
ExitCodeMutant(success) == 0

\* sys.exit(0 if success else 1)
ExitCode(success) == IF success THEN 0 ELSE 1

MainExit ==
    /\ pc = "return"
    /\ Step("exited", [locals EXCEPT !.exit_code = <<ExitCode(locals.success[1])>>])
    /\ UNCHANGED commits

(***************************************************************************)
(* Specifications: the operations of one component on the histories that   *)
(* vary what the component reads.  A component specification calls one     *)
(* operation on a freshly constructed analyzer; Spec calls every operation *)
(* any number of times, in any order.                                      *)
(***************************************************************************)
Fresh == ret = NoCall

\* every operation, on the mixed histories
Init == InitReady(MixedFamily(MaxMixed), BOOLEAN, BOOLEAN)

Next ==
    \/ CallBasicStats
    \/ CallAuthorRanking
    \/ CallCommitFrequency
    \/ CallRecentCommits
    \/ CallFileChangesStats
    \/ CallBugFixPatterns
    \/ CallCodeChurn
    \/ CallDevelopmentVelocity
    \/ CallContributorEvolution
    \/ CallCodeComplexity
    \/ CallFullReport

Spec == Init /\ [][Next]_vars

\* the history aggregator on histories that vary authors and dates
InitHistory ==
    InitReady(HistoryFamily(MaxCommits) \cup ManyAuthorsFamily(MaxManyAuthors),
              {TRUE}, {FALSE})

NextHistory ==
    \/ Fresh /\ CallBasicStats
    \/ Fresh /\ CallAuthorRanking
    \/ Fresh /\ CallCommitFrequency
    \/ Fresh /\ CallRecentCommits

SpecHistory == InitHistory /\ [][NextHistory]_vars

\* the contributor tracker and the velocity report on the same histories
InitContributors == InitReady(HistoryFamily(MaxCommits), {TRUE}, {FALSE})

NextContributors ==
    \/ Fresh /\ CallContributorEvolution
    \/ Fresh /\ CallDevelopmentVelocity

SpecContributors == InitContributors /\ [][NextContributors]_vars

\* the file change statistics on histories that vary parents and diffs
InitFiles == InitReady(DiffFamily(MaxCommits), {TRUE}, {FALSE})

NextFiles == Fresh /\ CallFileChangesStats

SpecFiles == InitFiles /\ [][NextFiles]_vars

\* the sampling step on histories of every length
InitSample == InitReady(SampleFamily(MaxTotal), {TRUE}, {FALSE})

NextSample ==
    \/ Fresh /\ CallCodeChurn
    \/ Fresh /\ CallCodeComplexity

SpecSample == InitSample /\ [][NextSample]_vars

\* the churn analysis on histories that vary the diffs and their items
InitChurn == InitReady(ChurnFamily(MaxCommits), {TRUE}, {FALSE})

NextChurn == Fresh /\ CallCodeChurn

SpecChurn == InitChurn /\ [][NextChurn]_vars

\* the bug classifier on histories with many authors and many files
InitBugAuthors == InitReady(BugAuthorsFamily(MaxManyAuthors), {TRUE}, {FALSE})

NextBugAuthors == Fresh /\ CallBugFixPatterns

SpecBugAuthors == InitBugAuthors /\ [][NextBugAuthors]_vars

\* the complexity analysis on histories that vary the trees
InitComplexity == InitReady(TreeFamily(MaxCommits), {TRUE}, {FALSE})

NextComplexity == Fresh /\ CallCodeComplexity

SpecComplexity == InitComplexity /\ [][NextComplexity]_vars

\* the bug classifier on histories that vary messages and diffs
InitBug == InitReady(BugFamily(MaxCommits), {TRUE}, {FALSE})

NextBug == Fresh /\ CallBugFixPatterns

SpecBug == InitBug /\ [][NextBug]_vars

\* the command line program on a missing path, on a path that is no
\* repository and on the mixed histories
InitMain ==
    /\ env \in {[path_exists |-> FALSE, is_repo |-> FALSE, history |-> <<>>,
                 has_code_analysis |-> TRUE, complexity_raises |-> FALSE],
                [path_exists |-> TRUE, is_repo |-> FALSE, history |-> <<>>,
                 has_code_analysis |-> TRUE, complexity_raises |-> FALSE]}
               \cup {[path_exists |-> TRUE, is_repo |-> TRUE, history |-> h,
                      has_code_analysis |-> TRUE, complexity_raises |-> FALSE]
                     : h \in MixedFamily(MaxMixed)}
    /\ pc = "start"
    /\ commits = <<>>
    /\ ret = NoCall
    /\ \E top_authors \in TopNs : locals = [NoLocals EXCEPT !.top_authors = top_authors]

NextMain ==
    \/ MainCheckPath
    \/ MainConstruct
    \/ MainBasicStats
    \/ MainAuthorRanking
    \/ MainCommitFrequency
    \/ MainRecentCommits
    \/ MainFileStats
    \/ MainVisualize
    \/ MainSaveJson
    \/ MainSaveReport
    \/ MainExit

SpecMain == InitMain /\ [][NextMain]_vars

(***************************************************************************)
(* Properties.                                                             *)
(***************************************************************************)
Abs(x) == IF x < 0 THEN -x ELSE x

Returns(op) == ret.op = op /\ ~ret.raised

CountSum(ranking) == SumSeq([i \in 1..Len(ranking) |-> ranking[i].count])

CounterSum(cnt) == SumSeq([i \in 1..Len(cnt) |-> cnt[i].n])

PercentageSum(ranking) == SumSeq([i \in 1..Len(ranking) |-> ranking[i].percentage])

\* the entries' percentages add up to 100.00 within half a hundredth per entry
NearHundred(ranking) == 2 * Abs(PercentageSum(ranking) - 100 * 100) <= Len(ranking)

C2_FrequencyBuckets ==
    Returns("get_commit_frequency")
        => LET buckets == ret.val
               by == ret.args[1]
           IN  /\ \A p \in 1..(Len(buckets) - 1) :
                      StrLess(buckets[p].key, buckets[p + 1].key)
               /\ \A i \in 1..Len(commits) :
                      \E p \in 1..Len(buckets) :
                          /\ buckets[p].key = FrequencyKey(commits[i].time, by)
                          /\ \A q \in 1..Len(buckets) :
                                 buckets[q].key = buckets[p].key => q = p
               /\ \A p \in 1..Len(buckets) :
                      buckets[p].n =
                          Cardinality({i \in 1..Len(commits) :
                                          FrequencyKey(commits[i].time, by) = buckets[p].key})
               /\ CounterSum(buckets) = Len(commits)

\* by day, the newest commit in the earliest bucket, two commits sharing a bucket
C2_Witness ==
    /\ Returns("get_commit_frequency")
    /\ ret.args = <<"day">>
    /\ Len(ret.val) = 2
    /\ Len(commits) = 3
    /\ FmtDay(commits[1].time) = ret.val[1].key
    /\ ret.val[2].n = 2

\* C3: the active-day span of get_basic_stats is never negative, whatever
\* the order of the dates along the traversal, and is 0 for a history of
\* one commit (and for the empty history).
C3_ActiveDaySpan ==
    Returns("get_basic_stats")
        => /\ ret.val.days_active >= 0
           /\ Len(commits) <= 1 => ret.val.days_active = 0
           /\ (commits # <<>>
               /\ Instant(commits[1].time) >= Instant(commits[Len(commits)].time))
                  => ret.val.days_active
                         = (Instant(commits[1].time) - Instant(commits[Len(commits)].time))
                               \div (24 * 60)

\* the first commit of the traversal is the older one: the difference is negative
C3_Witness ==
    /\ Returns("get_basic_stats")
    /\ Len(commits) = 2
    /\ Instant(commits[1].time) < Instant(commits[2].time)
    /\ ret.val.days_active = 0

AuthorsIn(month) ==
    {commits[i].author : i \in {j \in 1..Len(commits) : FmtMonth(commits[j].time) = month}}

AuthorsBefore(month) ==
    {commits[i].author :
        i \in {j \in 1..Len(commits) : StrLess(FmtMonth(commits[j].time), month)}}

\* C4: in the monthly series of analyze_contributor_evolution the months
\* ascend; after the first month the cumulative count does not decrease and
\* is the previous one plus the new contributors, who are the authors of
\* the month seen in no earlier month; in the first month cumulative, new
\* and total are equal.
C4_ContributorCohorts ==
    Returns("analyze_contributor_evolution")
        => LET series == ret.val.contributor_evolution
           IN  /\ \A m \in 1..(Len(series) - 1) :
                      StrLess(series[m].month, series[m + 1].month)
               /\ \A m \in 1..Len(series) :
                      /\ series[m].total_contributors
                             = Cardinality(AuthorsIn(series[m].month))
                      /\ series[m].new_contributors
                             = Cardinality(AuthorsIn(series[m].month)
                                               \ AuthorsBefore(series[m].month))
               /\ \A m \in 2..Len(series) :
                      /\ series[m].cumulative_contributors
                             >= series[m - 1].cumulative_contributors
                      /\ series[m].cumulative_contributors
                             = series[m - 1].cumulative_contributors
                                   + series[m].new_contributors
               /\ series # <<>>
                    => /\ series[1].cumulative_contributors = series[1].new_contributors
                       /\ series[1].new_contributors = series[1].total_contributors
               /\ {series[m].month : m \in 1..Len(series)}
                      = {FmtMonth(commits[i].time) : i \in 1..Len(commits)}

\* a second month with a returning author and a new one
C4_Witness ==
    /\ Returns("analyze_contributor_evolution")
    /\ Len(ret.val.contributor_evolution) = 2
    /\ ret.val.contributor_evolution[2].total_contributors = 2
    /\ ret.val.contributor_evolution[2].new_contributors = 1
    /\ ret.val.contributor_evolution[2].cumulative_contributors = 2

Sampling(op) == op \in {"analyze_code_churn", "analyze_code_complexity_evolution"}

\* the commits at the 0-based indices 0, k, 2k, ... of the history
EveryKth(k) ==
    LET picked == {i \in 0..(Len(commits) - 1) : i % k = 0}
    IN  [j \in 1..Cardinality(picked) |-> commits[(j - 1) * k + 1].hexsha]

\* C5: the sampling step of analyze_code_churn and of
\* analyze_code_complexity_evolution (sample size at least 1): a history no
\* longer than the sample size is taken whole; of a longer one the commits
\* at the indices 0, k, 2k, ... are taken, k = floor(total / sample size);
\* of 1000 commits with sample size 100 exactly 100 are taken, at stride 10.
C5_StrideSampling ==
    (Sampling(ret.op) /\ ret.args[1] >= 1)
        => LET total_commits == Len(commits)
               sample_size == ret.args[1]
           IN  /\ ~ret.raised
               /\ total_commits <= sample_size => ret.sampled = HexShas(commits)
               /\ total_commits > sample_size
                    => ret.sampled = EveryKth(total_commits \div sample_size)
               /\ (total_commits = 1000 /\ sample_size = 100)
                    => /\ Len(ret.sampled) = 100
                       /\ \A j \in 1..100 :
                              ret.sampled[j] = commits[10 * (j - 1) + 1].hexsha

C5_Witness ==
    /\ Returns("analyze_code_churn")
    /\ Len(commits) = 1000
    /\ ret.args = <<DefaultChurnSample>>
    /\ Len(ret.sampled) = 100
    /\ ret.sampled[100] = commits[991].hexsha

\* keyword occurs in text as a run of consecutive characters
OccursIn(keyword, text) ==
    \E start \in 1..(Len(text) - Len(keyword) + 1) :
        \A k \in 1..Len(keyword) : text[start + k - 1] = keyword[k]

\* the commits whose lower-cased message holds a configured keyword
KeywordCommits ==
    {i \in 1..Len(commits) :
        \E keyword \in bug_keywords : OccursIn(keyword, Lower(commits[i].message))}

\* C6: analyze_bug_fix_patterns returns a bug_fix_rate between 0 and 100,
\* 0 when there are no commits; a commit is counted as a bug fix if and
\* only if its lower-cased message contains a configured keyword: one with
\* the message "Fix null pointer" is counted, one with "Add login page" is
\* not.  (The rate is held in hundredths of a percent.)
C6_BugFixRate ==
    Returns("analyze_bug_fix_patterns")
        => /\ 0 <= ret.val.bug_fix_rate
           /\ ret.val.bug_fix_rate <= 100 * 100
           /\ commits = <<>> => ret.val.bug_fix_rate = 0
           /\ ret.val.total_bug_fixes = Cardinality(KeywordCommits)
           /\ \A p \in 1..Len(ret.val.recent_bug_fixes) :
                  \E i \in KeywordCommits :
                      /\ ret.val.recent_bug_fixes[p].hash = Take(commits[i].hexsha, 8)
                      /\ Cardinality({j \in KeywordCommits : j < i}) = p - 1
           /\ \A i \in 1..Len(commits) :
                  /\ commits[i].message = MsgFix => i \in KeywordCommits
                  /\ commits[i].message = MsgAdd => i \notin KeywordCommits
           /\ commits # <<>>
                => 2 * Abs(ret.val.bug_fix_rate * Len(commits)
                               - 100 * 100 * Cardinality(KeywordCommits))
                       <= Len(commits)

\* "Add login page", "Fix null pointer", "Add login page": one fix in three
C6_Witness ==
    /\ Returns("analyze_bug_fix_patterns")
    /\ Len(commits) = 3
    /\ commits[1].message = MsgAdd
    /\ commits[2].message = MsgFix
    /\ commits[3].message = MsgAdd
    /\ ret.val.total_bug_fixes = 1
    /\ ret.val.bug_fix_rate = 3333

\* C7: for a repository of a single root commit get_file_changes_stats
\* reports analyzed-commit count 1, touched-file count 0 and an empty
\* top-files list.
C7_SingleRootCommit ==
    (Returns("get_file_changes_stats") /\ Len(commits) = 1 /\ commits[1].parents = 0)
        => /\ ret.val.analyzed_commits = 1
           /\ ret.val.touched_files = 0
           /\ ret.val.top_files = <<>>

C7_Witness ==
    /\ Returns("get_file_changes_stats")
    /\ ret.args = <<DefaultFileLimit>>
    /\ Len(commits) = 1
    /\ commits[1].parents = 0
    /\ ret.val.analyzed_commits = 1
    /\ ret.val.touched_files = 0

\* the commits get_file_changes_stats(limit) looks at
Inspected(limit) == 1..Min(limit, Len(commits))

\* those of them that have a parent and whose diff is computed
Diffed(limit) == {i \in Inspected(limit) : commits[i].parents > 0 /\ commits[i].diff.ok}

\* the path a diff entry is counted under: the old path, or the new one of
\* an entry without an old path
CountedPath(item) == IF item.a_path # <<>> THEN item.a_path ELSE item.b_path

\* the diff entries of those commits, as <<commit, entry>>
Touches(limit) ==
    UNION {{<<i, k>> : k \in {e \in 1..Len(commits[i].diff.items) :
                                 CountedPath(commits[i].diff.items[e]) # <<>>}}
           : i \in Diffed(limit)}

\* those of them counted under path
TouchesOf(limit, path) ==
    {t \in Touches(limit) : CountedPath(commits[t[1]].diff.items[t[2]]) = path}

\* C8, as stated: the analyzed-commit count that get_file_changes_stats
\* reports is the number of inspected commits that have a parent and whose
\* diff succeeded.
C8_AsStated ==
    (Returns("get_file_changes_stats") /\ commits # <<>>)
        => ret.val.analyzed_commits = Cardinality(Diffed(ret.args[1]))

\* C8, amended: in get_file_changes_stats commits without a parent and
\* commits whose diff computation fails add nothing to the per-file change
\* counts, but they do count toward the reported analyzed-commit count,
\* which is the number of inspected commits, min(M, total).
C8_SkippedCommits ==
    (Returns("get_file_changes_stats") /\ commits # <<>>)
        => LET limit == ret.args[1]
               touched == {CountedPath(commits[t[1]].diff.items[t[2]]) : t \in Touches(limit)}
           IN  /\ ret.val.analyzed_commits = Cardinality(Inspected(limit))
               /\ ret.val.analyzed_commits
                      = Cardinality(Diffed(limit))
                            + Cardinality(Inspected(limit) \ Diffed(limit))
               /\ ret.val.touched_files = Cardinality(touched)
               /\ {ret.val.top_files[p].file : p \in 1..Len(ret.val.top_files)} = touched
               /\ \A p \in 1..Len(ret.val.top_files) :
                      ret.val.top_files[p].changes
                          = Cardinality(TouchesOf(limit, ret.val.top_files[p].file))

\* a root commit, a commit whose diff fails and a commit that is diffed
C8_Witness ==
    /\ Returns("get_file_changes_stats")
    /\ ret.args = <<MainFileLimit>>
    /\ Len(commits) = 3
    /\ commits[1].parents = 1 /\ ~commits[1].diff.ok
    /\ commits[2].parents = 1 /\ commits[2].diff.ok /\ commits[2].diff.items # <<>>
    /\ commits[3].parents = 0
    /\ ret.val.analyzed_commits = 3
    /\ ret.val.touched_files = 1

\* the aggregate operations of the two analyzers
AggregateOps ==
    {"get_basic_stats", "get_author_ranking", "get_commit_frequency",
     "get_recent_commits", "get_file_changes_stats", "analyze_bug_fix_patterns",
     "analyze_code_churn", "analyze_development_velocity",
     "analyze_contributor_evolution", "analyze_code_complexity_evolution"}

\* what an operation returns when there is nothing to aggregate
EmptyResult(op) ==
    CASE op = "get_basic_stats" ->
             [total_commits |-> 0, authors |-> 0, first_commit |-> Placeholder,
              last_commit |-> Placeholder, days_active |-> 0]
      [] op = "get_file_changes_stats" -> [total_files |-> 0, changed_files |-> <<>>]
      [] op = "analyze_bug_fix_patterns" ->
             [total_bug_fixes |-> 0, bug_fix_rate |-> 0, bug_fixes_by_month |-> <<>>,
              top_bug_fixers |-> <<>>, most_buggy_files |-> <<>>,
              recent_bug_fixes |-> <<>>]
      [] op = "analyze_code_churn" ->
             [churn_timeline |-> <<>>, high_churn_files |-> <<>>,
              total_additions |-> 0, total_deletions |-> 0]
      [] op = "analyze_development_velocity" ->
             [weekly_velocity |-> <<>>, monthly_velocity |-> <<>>]
      [] op = "analyze_contributor_evolution" ->
             [contributor_evolution |-> <<>>, contributor_stats |-> <<>>,
              total_contributors |-> 0]
      [] OTHER -> <<>>

Aggregations ==
    {"get_basic_stats", "get_author_ranking", "get_commit_frequency",
     "get_recent_commits", "get_file_changes_stats"}

SetupFails == ~env.path_exists \/ ~env.is_repo

\* C10: when the repository location does not exist or is no repository, no
\* aggregation operation is invoked and no result file is written, and the
\* program exits with a non-zero status; when setup succeeds and every step
\* completes, the exit status is 0.
C10_SetupFailure ==
    /\ SetupFails
         => /\ locals.calls = <<>>
            /\ pc \notin Aggregations \cup {"visualize", "save_json", "save_report"}
            /\ locals.written = {}
            /\ locals.success # <<TRUE>>
            /\ pc = "exited" => locals.exit_code # <<>> /\ locals.exit_code[1] # 0
    /\ (~SetupFails /\ pc = "exited" /\ locals.raised = <<>>)
         => /\ locals.exit_code = <<0>>
            /\ Len(locals.calls) = Cardinality(Aggregations)
            /\ locals.written = {"analysis_result.json", "report.txt"}

\* the path exists but is no repository: the constructor raised, exit status 1
C10_Witness ==
    /\ pc = "exited"
    /\ env.path_exists
    /\ ~env.is_repo
    /\ locals.raised = <<"GitAnalyzer">>
    /\ locals.exit_code = <<1>>

\* C11: without the metrics provider analyze_code_complexity_evolution
\* returns the unavailable sentinel and inspects no commit, and
\* generate_full_report still holds the results of the bug-fix, churn,
\* velocity and contributor analyses; when the complexity analysis raises
\* inside the report its entry is None and the other four are the same.
C11_ComplexityUnavailable ==
    /\ (ret.op = "analyze_code_complexity_evolution" /\ ~env.has_code_analysis)
         => /\ ~ret.raised
            /\ ret.val = Unavailable
            /\ ret.sampled = <<>>
    /\ Returns("generate_full_report")
         => /\ ret.val.bug_fix_analysis = analyze_bug_fix_patterns(commits)
            /\ ret.val.code_churn = analyze_code_churn(commits, ReportChurnSample)
            /\ ret.val.development_velocity = analyze_development_velocity(commits)
            /\ ret.val.contributor_evolution = analyze_contributor_evolution(commits)
            /\ ret.val.metadata.total_commits = Len(commits)
            /\ ~env.has_code_analysis => ret.val.complexity_evolution = <<Unavailable>>
            /\ (env.has_code_analysis /\ env.complexity_raises)
                 => ret.val.complexity_evolution = <<>>
            /\ (env.has_code_analysis /\ ~env.complexity_raises)
                 => /\ Len(ret.val.complexity_evolution) = 1
                    /\ Len(ret.val.complexity_evolution[1]) <= Len(commits)

\* a report without the provider on a history with a bug fix and two authors
C11_Witness ==
    /\ Returns("generate_full_report")
    /\ ~env.has_code_analysis
    /\ ret.val.complexity_evolution = <<Unavailable>>
    /\ ret.val.bug_fix_analysis.total_bug_fixes = 1
    /\ ret.val.contributor_evolution.total_contributors = 2
    /\ Len(ret.val.code_churn.churn_timeline) = 1

\* the sampled commits of the last call, by object name
SampledOf(names) ==
    SelectSeq(commits, LAMBDA commit : \E k \in 1..Len(names) : names[k] = commit.hexsha)

\* a commit without the diff items that cannot be read
WithoutBadItems(commit) ==
    [commit EXCEPT !.diff.items = SelectSeq(@, LAMBDA item : ~item.bad)]

\* the commits of cs whose diff is computed, without the items that cannot be read
WithoutFailures(cs) ==
    LET good == SelectSeq(cs, LAMBDA commit : commit.parents = 0 \/ commit.diff.ok)
    IN  [i \in 1..Len(good) |-> WithoutBadItems(good[i])]

\* C12: analyze_code_churn (sample size at least 1) ends with a result for
\* every pattern of failing diff items and failing diffs; an item that fails
\* adds nothing to its commit's totals or to the per-file table while the
\* other items of the commit are counted, and a commit whose diff fails has
\* no timeline point while the rest of the result is what it would be
\* without that commit in the sample.
C12_ChurnFailures ==
    (ret.op = "analyze_code_churn" /\ ret.args[1] >= 1)
        => LET sampled == SampledOf(ret.sampled)
               clean == WithoutFailures(sampled)
           IN  /\ ~ret.raised
               /\ ret.val = analyze_code_churn(clean, Len(clean) + 1)
               /\ Len(ret.val.churn_timeline)
                      <= Cardinality({i \in 1..Len(sampled) :
                                         sampled[i].parents > 0 /\ sampled[i].diff.ok})
               /\ \A p \in 1..Len(ret.val.churn_timeline) :
                      \E i \in 1..Len(sampled) :
                          /\ sampled[i].diff.ok
                          /\ ret.val.churn_timeline[p].timestamp = sampled[i].time
                          /\ ret.val.churn_timeline[p].files_changed
                                 = Cardinality({k \in 1..Len(sampled[i].diff.items) :
                                                   /\ ~sampled[i].diff.items[k].bad
                                                   /\ sampled[i].diff.items[k].patch # <<>>})

\* a failing diff between two commits that have an unreadable item next to
\* readable ones: two points, of one and of two files
C12_Witness ==
    /\ Returns("analyze_code_churn")
    /\ ret.args = <<DefaultChurnSample>>
    /\ Len(commits) = 3
    /\ commits[1].diff = DiffOk(<<ItemBad, ItemAdd>>)
    /\ commits[2].diff = DiffFails
    /\ commits[3].parents = 1
    /\ commits[3].diff = DiffOk(<<ItemHeader, ItemBad, ItemModify>>)
    /\ Len(ret.val.churn_timeline) = 2
    /\ ret.val.churn_timeline[1].files_changed = 1
    /\ ret.val.churn_timeline[2].files_changed = 2

\* a result without its generated-at field
Aggregates(r) ==
    IF r.op = "generate_full_report" /\ ~r.raised
    THEN [r EXCEPT !.val.metadata.analysis_date = 0]
    ELSE r

SamplingOutcome(op, args, cs, val) ==
    IF SamplingRaises(cs, args[1]) THEN Raised(op, args)
    ELSE [op |-> op, args |-> args, raised |-> FALSE,
          sampled |-> HexShas(SampledCommits(cs, args[1])), val |-> val]

\* what an operation returns when it is the first to run on the commit
\* sequence cs (the generated-at field of the report apart)
Outcome(op, args, cs) ==
    CASE op = "get_basic_stats" -> Returned(op, args, get_basic_stats(cs))
      [] op = "get_author_ranking" -> Returned(op, args, get_author_ranking(cs, args[1]))
      [] op = "get_commit_frequency" ->
             Returned(op, args, get_commit_frequency(cs, args[1]))
      [] op = "get_recent_commits" -> Returned(op, args, get_recent_commits(cs, args[1]))
      [] op = "get_file_changes_stats" ->
             Returned(op, args, get_file_changes_stats(cs, args[1]))
      [] op = "analyze_bug_fix_patterns" -> Returned(op, args, analyze_bug_fix_patterns(cs))
      [] op = "analyze_development_velocity" ->
             Returned(op, args, analyze_development_velocity(cs))
      [] op = "analyze_contributor_evolution" ->
             Returned(op, args, analyze_contributor_evolution(cs))
      [] op = "analyze_code_churn" ->
             SamplingOutcome(op, args, cs, analyze_code_churn(cs, args[1]))
      [] op = "analyze_code_complexity_evolution" ->
             IF env.has_code_analysis
             THEN SamplingOutcome(op, args, cs,
                                  analyze_code_complexity_evolution(cs, {ExtPy}, args[1], TRUE))
             ELSE Returned(op, args, Unavailable)
      [] op = "generate_full_report" ->
             Returned(op, args,
                      generate_full_report(cs, env.has_code_analysis,
                                           env.has_code_analysis /\ env.complexity_raises, 0))

CommitsBy(author) == {i \in 1..Len(commits) : commits[i].author = author}

\* the history is two commits of A and one of B, in any order
TwoToOne ==
    /\ Len(commits) = 3
    /\ Cardinality(CommitsBy("A")) = 2
    /\ Cardinality(CommitsBy("B")) = 1

\* C15: on three commits, two by A and one by B, get_author_ranking returns
\* A with 2 commits and 66.67 %, then B with 1 commit and 33.33 %, and
\* get_basic_stats reports 3 commits and 2 authors; in general the
\* percentage of an entry is its count over the number of commits times
\* 100, rounded to 2 decimals, and the author count is the number of
\* distinct author names.  (Percentages are held in hundredths.)
C15_RankingValues ==
    /\ Returns("get_author_ranking")
         => /\ \A p \in 1..Len(ret.val) :
                   /\ ret.val[p].count = Cardinality(CommitsBy(ret.val[p].author))
                   /\ 2 * Abs(ret.val[p].percentage * Len(commits)
                                  - 100 * 100 * ret.val[p].count) <= Len(commits)
            /\ TwoToOne
                 => LET both == <<[author |-> "A", count |-> 2, percentage |-> 6667],
                                  [author |-> "B", count |-> 1, percentage |-> 3333]>>
                    IN  ret.val = Take(both, ret.args[1])
    /\ Returns("get_basic_stats")
         => /\ ret.val.total_commits = Len(commits)
            /\ ret.val.authors
                   = Cardinality({commits[i].author : i \in 1..Len(commits)})
            /\ TwoToOne => ret.val.total_commits = 3 /\ ret.val.authors = 2

\* B wrote the commit between the two of A
C15_Witness ==
    /\ Returns("get_author_ranking")
    /\ ret.args = <<DefaultTopN>>
    /\ TwoToOne
    /\ commits[2].author = "B"
    /\ ret.val[1] = [author |-> "A", count |-> 2, percentage |-> 6667]
    /\ ret.val[2] = [author |-> "B", count |-> 1, percentage |-> 3333]

\* the place of an author's newest commit in the newest-first sequence
FirstSeen(author) ==
    CHOOSE i \in CommitsBy(author) : \A j \in CommitsBy(author) : i <= j

\* C16: get_author_ranking(N) returns at most N entries, by commit count in
\* non-increasing order, authors of equal count in the order of their first
\* occurrence in the newest-first commit sequence; no author outside the
\* list has more commits than an author in it.
C16_RankingOrder ==
    Returns("get_author_ranking")
        => LET ranking == ret.val
               listed == {ranking[p].author : p \in 1..Len(ranking)}
           IN  /\ Len(ranking) <= ret.args[1]
               /\ Cardinality(listed) = Len(ranking)
               /\ \A p \in 1..Len(ranking) : CommitsBy(ranking[p].author) # {}
               /\ \A p, q \in 1..Len(ranking) :
                      p < q => \/ ranking[p].count > ranking[q].count
                               \/ /\ ranking[p].count = ranking[q].count
                                  /\ FirstSeen(ranking[p].author)
                                         < FirstSeen(ranking[q].author)
               /\ \A i \in 1..Len(commits) :
                      commits[i].author \notin listed
                          => \A p \in 1..Len(ranking) :
                                 Cardinality(CommitsBy(commits[i].author))
                                     <= ranking[p].count

\* three commits, the two older ones by B: B before A, and with N = 1 A is left out
C16_Witness ==
    /\ Returns("get_author_ranking")
    /\ ret.args = <<1>>
    /\ Len(commits) = 3
    /\ commits[1].author = "A"
    /\ Cardinality(CommitsBy("B")) = 2
    /\ Len(ret.val) = 1
    /\ ret.val[1].author = "B"

\* the diff entries of the inspected, diffed commits that name path as their
\* old or as their new path
EntriesNaming(limit, path) ==
    UNION {{<<i, k>> : k \in {e \in 1..Len(commits[i].diff.items) :
                                 \/ commits[i].diff.items[e].a_path = path
                                 \/ commits[i].diff.items[e].b_path = path}}
           : i \in Diffed(limit)}

\* the change count reported for path, 0 if it is not reported
ChangesOf(top_files, path) ==
    IF \E p \in 1..Len(top_files) : top_files[p].file = path
    THEN (CHOOSE entry \in {top_files[p] : p \in 1..Len(top_files)} :
              entry.file = path).changes
    ELSE 0

\* C17: in get_file_changes_stats every diff item of an inspected commit
\* with a parent counts for each path it touches, its old path and its new
\* path: a rename counts for both.
C17_BothPathsCounted ==
    (Returns("get_file_changes_stats") /\ commits # <<>>)
        => \A path \in {PathA, PathB} :
               ChangesOf(ret.val.top_files, path)
                   = Cardinality(EntriesNaming(ret.args[1], path))

\* a single renaming commit: one path reported, the old one
C17_Witness ==
    /\ Returns("get_file_changes_stats")
    /\ Len(commits) = 1
    /\ commits[1].parents = 1
    /\ commits[1].diff = DiffOk(<<ItemRename>>)
    /\ ret.val.touched_files = 1
    /\ ret.val.top_files = <<[file |-> PathA, changes |-> 1]>>

\* C18: the churn timeline of analyze_code_churn is in chronological order,
\* no point earlier than the one before it, and has exactly one point for
\* every sampled commit that has a parent and whose diff was computed.
C18_ChronologicalTimeline ==
    Returns("analyze_code_churn")
        => LET timeline == ret.val.churn_timeline
               sampled == SampledOf(ret.sampled)
           IN  /\ \A p \in 1..(Len(timeline) - 1) :
                      Instant(timeline[p].timestamp) <= Instant(timeline[p + 1].timestamp)
               /\ Len(timeline)
                      = Cardinality({i \in 1..Len(sampled) :
                                        sampled[i].parents > 0 /\ sampled[i].diff.ok})

\* two diffed commits, the newer one first in the timeline
C18_Witness ==
    /\ Returns("analyze_code_churn")
    /\ ret.args = <<DefaultChurnSample>>
    /\ Len(commits) = 2
    /\ Len(ret.val.churn_timeline) = 2
    /\ ret.val.churn_timeline[1].timestamp = commits[1].time
    /\ ret.val.churn_timeline[2].timestamp = commits[2].time
    /\ Instant(commits[1].time) > Instant(commits[2].time)

\* C19: every churn timeline point has net_change = additions - deletions and
\* churn_rate = additions + deletions; total_additions and total_deletions are
\* the sums over the points; high_churn_files has at most 20 entries, sorted
\* by total_churn in non-increasing order, each with total_churn = additions
\* + deletions.
C19_ChurnArithmetic ==
    Returns("analyze_code_churn")
        => LET timeline == ret.val.churn_timeline
               files == ret.val.high_churn_files
           IN  /\ \A p \in 1..Len(timeline) :
                      /\ timeline[p].net_change
                             = timeline[p].additions - timeline[p].deletions
                      /\ timeline[p].churn_rate
                             = timeline[p].additions + timeline[p].deletions
               /\ ret.val.total_additions
                      = SumSeq([p \in 1..Len(timeline) |-> timeline[p].additions])
               /\ ret.val.total_deletions
                      = SumSeq([p \in 1..Len(timeline) |-> timeline[p].deletions])
               /\ Len(files) <= HighChurnFiles
               /\ \A f \in 1..(Len(files) - 1) :
                      files[f].total_churn >= files[f + 1].total_churn
               /\ \A f \in 1..Len(files) :
                      files[f].total_churn = files[f].additions + files[f].deletions

\* more files than the list holds, of different churn, and two points
C19_Witness ==
    /\ Returns("analyze_code_churn")
    /\ Len(commits) = 2
    /\ Len(commits[1].diff.items) > HighChurnFiles
    /\ Len(ret.val.high_churn_files) = HighChurnFiles
    /\ ret.val.high_churn_files[1].total_churn
           > ret.val.high_churn_files[HighChurnFiles].total_churn
    /\ Len(ret.val.churn_timeline) = 2
    /\ ret.val.churn_timeline[1].additions # ret.val.churn_timeline[1].deletions

\* the history with every failing diff replaced by one that is computed
WithDiffsComputed(cs) ==
    [i \in 1..Len(cs) |->
        IF cs[i].diff.ok THEN cs[i] ELSE [cs[i] EXCEPT !.diff = DiffOk(<<ItemModify>>)]]

\* C20: the recent-fixes list of analyze_bug_fix_patterns holds the first
\* min(20, total_bug_fixes) classified commits in input order; a diff that
\* fails on a classified commit changes the per-file counters only: the commit
\* is still counted in total_bug_fixes, in its month, for its author and in
\* the recent-fixes list.
C20_RecentFixes ==
    Returns("analyze_bug_fix_patterns")
        => LET fixes == SelectSeq(commits, IsBugFix)
               recent == ret.val.recent_bug_fixes
               computed == analyze_bug_fix_patterns(WithDiffsComputed(commits))
           IN  /\ ret.val.total_bug_fixes = Len(fixes)
               /\ Len(recent) = Min(RecentBugFixes, ret.val.total_bug_fixes)
               /\ \A i \in 1..Len(recent) :
                      /\ recent[i].hash = Take(fixes[i].hexsha, 8)
                      /\ recent[i].author = fixes[i].author
                      /\ recent[i].date = FmtMinute(fixes[i].time)
               /\ \A i \in 1..Len(fixes) :
                      /\ \E m \in 1..Len(ret.val.bug_fixes_by_month) :
                             /\ ret.val.bug_fixes_by_month[m].key = FmtMonth(fixes[i].time)
                             /\ ret.val.bug_fixes_by_month[m].n
                                    = Cardinality({j \in 1..Len(fixes) :
                                          FmtMonth(fixes[j].time) = FmtMonth(fixes[i].time)})
                      /\ \E a \in 1..Len(ret.val.top_bug_fixers) :
                             /\ ret.val.top_bug_fixers[a].key = fixes[i].author
                             /\ ret.val.top_bug_fixers[a].n
                                    = Cardinality({j \in 1..Len(fixes) :
                                          fixes[j].author = fixes[i].author})
               /\ ret.val.total_bug_fixes = computed.total_bug_fixes
               /\ ret.val.bug_fix_rate = computed.bug_fix_rate
               /\ ret.val.bug_fixes_by_month = computed.bug_fixes_by_month
               /\ ret.val.top_bug_fixers = computed.top_bug_fixers
               /\ ret.val.recent_bug_fixes = computed.recent_bug_fixes

\* more than 20 fixes, the diff of the second one fails, the list is cut
C20_Witness ==
    /\ Returns("analyze_bug_fix_patterns")
    /\ ret.val.total_bug_fixes > RecentBugFixes
    /\ Len(ret.val.recent_bug_fixes) = RecentBugFixes
    /\ IsBugFix(commits[1]) /\ IsBugFix(commits[3])
    /\ ~commits[3].diff.ok
    /\ ret.val.recent_bug_fixes[2].hash = Take(commits[3].hexsha, 8)
    /\ ret.val.most_buggy_files
           # analyze_bug_fix_patterns(WithDiffsComputed(commits)).most_buggy_files

\* the files of a commit's tree that the walk yields and that are analyzed
\* without an exception
AnalyzedFiles(commit) ==
    Cardinality({k \in 1..Len(commit.tree.items) :
                    /\ commit.tree.items[k].type = "blob"
                    /\ EndsWith(commit.tree.items[k].path, ExtPy)
                    /\ commit.tree.items[k].ok})

\* the timeline has one point, in order, for each of the chosen commits, and
\* its file_count is the number of files analyzed
PointsFor(timeline, chosen) ==
    /\ Len(timeline) = Len(chosen)
    /\ \A p \in 1..Len(timeline) :
           /\ timeline[p].commit_hash = Take(chosen[p].hexsha, 8)
           /\ timeline[p].metrics.file_count = AnalyzedFiles(chosen[p])
           /\ timeline[p].metrics.file_count >= 1

\* C21 as stated: a sampled commit has a point in the complexity timeline if
\* and only if at least one file with an allowed extension in its tree was
\* analyzed successfully; a file whose analysis fails is the only one
\* skipped, and every point has file_count >= 1.
C21_AsStated ==
    Returns("analyze_code_complexity_evolution")
        => PointsFor(ret.val,
                     SelectSeq(SampledOf(ret.sampled),
                               LAMBDA commit : AnalyzedFiles(commit) >= 1))

\* C21: a sampled commit has a point in the complexity timeline if and only
\* if the walk of its tree does not raise and at least one file with an
\* allowed extension was analyzed successfully; a file whose analysis fails
\* is the only one skipped, and every point has file_count >= 1.
C21_TimelinePoints ==
    Returns("analyze_code_complexity_evolution")
        => PointsFor(ret.val,
                     SelectSeq(SampledOf(ret.sampled),
                               LAMBDA commit : commit.tree.ok /\ AnalyzedFiles(commit) >= 1))

\* a commit with a failing file beside an analyzed one has a point, a commit
\* whose walk raises after a file was analyzed has none
C21_Witness ==
    /\ Returns("analyze_code_complexity_evolution")
    /\ Len(commits) = 2
    /\ commits[1].tree = TreeOk(<<Blob(PathA, FALSE, <<>>, 0), Blob(PathC, TRUE, <<2>>, 3)>>)
    /\ commits[2].tree = TreeFails(<<Blob(PathA, TRUE, <<1, 3>>, 7)>>)
    /\ Len(ret.sampled) = 2
    /\ Len(ret.val) = 1
    /\ ret.val[1].metrics.file_count = 1

\* the dates of the commits of an author
TimesOf(author) == {commits[i].time : i \in {j \in 1..Len(commits) : commits[j].author = author}}

\* C22: for every author in contributor_stats, first_commit and last_commit
\* are the earliest and the latest of the author's commit timestamps whatever
\* the traversal order, active_days = (date of last - date of first) in days
\* + 1 and is >= 1, total_commits is the number of the author's commits, and
\* the list has at most 20 entries sorted by total_commits, non-increasing.
C22_ContributorStats ==
    Returns("analyze_contributor_evolution")
        => LET stats == ret.val.contributor_stats
           IN  /\ Len(stats) <= TopContributors
               /\ \A k \in 1..(Len(stats) - 1) :
                      stats[k].total_commits >= stats[k + 1].total_commits
               /\ \A k \in 1..Len(stats) :
                      LET times == TimesOf(stats[k].author)
                      IN  \E first \in times, last \in times :
                              /\ \A t \in times : Instant(first) <= Instant(t)
                              /\ \A t \in times : Instant(t) <= Instant(last)
                              /\ stats[k].first_commit = FmtDay(first)
                              /\ stats[k].last_commit = FmtDay(last)
                              /\ stats[k].active_days
                                     = Ordinal([last EXCEPT !.H = 0, !.M = 0])
                                       - Ordinal([first EXCEPT !.H = 0, !.M = 0]) + 1
                              /\ stats[k].active_days >= 1
                              /\ stats[k].total_commits
                                     = Cardinality({j \in 1..Len(commits) :
                                                       commits[j].author = stats[k].author})

\* an author whose earlier commit has the later local date: the span is 0
C22_Witness ==
    /\ Returns("analyze_contributor_evolution")
    /\ Len(commits) = 2
    /\ commits[1].author = commits[2].author
    /\ commits[1].time = TimeD /\ commits[2].time = TimeC
    /\ Instant(TimeC) < Instant(TimeD)
    /\ ret.val.contributor_stats[1].first_commit = FmtDay(TimeC)
    /\ ret.val.contributor_stats[1].last_commit = FmtDay(TimeD)
    /\ ret.val.contributor_stats[1].active_days = 0

\* C23 as stated: for every total commit count and every sample size S >= 1
\* the sampling step of analyze_code_churn and of
\* analyze_code_complexity_evolution selects at most S commits.
C23_AsStated ==
    (Sampling(ret.op) /\ ret.args[1] >= 1)
        => /\ ~ret.raised
           /\ Len(ret.sampled) <= ret.args[1]

\* C23: for every total commit count and every sample size S >= 1 the
\* sampling step of analyze_code_churn and of
\* analyze_code_complexity_evolution selects all the commits if there are at
\* most S, and otherwise ceil(total / floor(total / S)) of them, which is
\* fewer than 2 * S and can be more than S.
C23_SampleCount ==
    (Sampling(ret.op) /\ ret.args[1] >= 1)
        => LET total_commits == Len(commits)
               sample_size == ret.args[1]
               step == total_commits \div sample_size
           IN  /\ ~ret.raised
               /\ total_commits <= sample_size => Len(ret.sampled) = total_commits
               /\ total_commits > sample_size
                    => /\ Len(ret.sampled) = (total_commits + step - 1) \div step
                       /\ Len(ret.sampled) < 2 * sample_size

\* five commits and a sample size of three: the stride is 1, all five are taken
C23_Witness ==
    /\ Returns("analyze_code_complexity_evolution")
    /\ Len(commits) = 5
    /\ ret.args = <<3>>
    /\ Len(ret.sampled) = 5

\* the number of classified commits of an author
FixesBy(author) ==
    Cardinality({j \in 1..Len(commits) : IsBugFix(commits[j]) /\ commits[j].author = author})

\* the entries are at most limit, the counts do not increase
TopList(list, limit) ==
    /\ Len(list) <= limit
    /\ \A k \in 1..(Len(list) - 1) : list[k].n >= list[k + 1].n

\* C24: the rollups of analyze_bug_fix_patterns agree for every commit
\* sequence: total_bug_fixes is the sum of the counts of bug_fixes_by_month
\* and the sum of the fix counts of all authors, and is at most the number of
\* commits; the keys of bug_fixes_by_month ascend; top_bug_fixers and
\* most_buggy_files have at most 10 entries each, their counts non-increasing.
C24_BugFixRollups ==
    Returns("analyze_bug_fix_patterns")
        => LET names == AuthorOrder(commits)
               months == ret.val.bug_fixes_by_month
               fixers == ret.val.top_bug_fixers
           IN  /\ ret.val.total_bug_fixes = CounterSum(months)
               /\ ret.val.total_bug_fixes
                      = SumSeq([k \in 1..Len(names) |-> FixesBy(names[k])])
               /\ ret.val.total_bug_fixes <= Len(commits)
               /\ \A m \in 1..(Len(months) - 1) : StrLess(months[m].key, months[m + 1].key)
               /\ TopList(fixers, TopBugFixers)
               /\ TopList(ret.val.most_buggy_files, TopBuggyFiles)
               /\ \A k \in 1..Len(fixers) : fixers[k].n = FixesBy(fixers[k].key)
               /\ \A k \in 1..Len(names) :
                      \/ \E f \in 1..Len(fixers) : fixers[f].key = names[k]
                      \/ FixesBy(names[k]) = 0
                      \/ /\ Len(fixers) = TopBugFixers
                         /\ FixesBy(names[k]) <= fixers[TopBugFixers].n

\* more fixing authors and more files than are listed, the last author first
\* with two fixes, months out of order in the traversal
C24_Witness ==
    /\ Returns("analyze_bug_fix_patterns")
    /\ Cardinality(Authors(commits)) > TopBugFixers
    /\ Len(ret.val.top_bug_fixers) = TopBugFixers
    /\ Len(ret.val.most_buggy_files) = TopBuggyFiles
    /\ ret.val.top_bug_fixers[1].n = 2
    /\ ret.val.top_bug_fixers[1].key # commits[1].author
    /\ CounterSum(ret.val.top_bug_fixers) < ret.val.total_bug_fixes
    /\ ret.val.total_bug_fixes < Len(commits)
    /\ Len(ret.val.bug_fixes_by_month) = 3

\* C25: the line counts of analyze_code_churn are never negative: additions >= 0
\* and deletions >= 0 in every timeline point and in every per-file entry,
\* also for a patch without an added-line or without a removed-line marker.
C25_NonNegativeCounts ==
    Returns("analyze_code_churn")
        => /\ \A p \in 1..Len(ret.val.churn_timeline) :
                  /\ ret.val.churn_timeline[p].additions >= 0
                  /\ ret.val.churn_timeline[p].deletions >= 0
           /\ \A f \in 1..Len(ret.val.high_churn_files) :
                  /\ ret.val.high_churn_files[f].additions >= 0
                  /\ ret.val.high_churn_files[f].deletions >= 0

\* a commit whose only counted patch removes one line and adds none
C25_Witness ==
    /\ Returns("analyze_code_churn")
    /\ Len(commits) = 1
    /\ commits[1].parents > 0
    /\ commits[1].diff = DiffOk(<<ItemRename, ItemDelete>>)
    /\ CountPair(PatchDelOnly, <<"\n", "+">>) = 0
    /\ ret.val.churn_timeline[1].additions = -1
    /\ ret.val.churn_timeline[1].deletions = 0
    /\ ret.val.high_churn_files[1].additions = -1
    /\ ret.val.total_additions = -1

=============================================================================
